---- MODULE Spec2Model ----
(***************************************************************************)
(* Model of the NZB segment-acquisition engine of media-downloader:        *)
(*   - categorize_error, EnhancedRetryHandler  (services/error_handling.py)*)
(*   - EnhancedNZBService.download_file and the segment fetch path         *)
(*                                       (services/nzb_service_enhanced.py)*)
(*   - SSLConnectionManager                      (services/ssl_handler.py) *)
(*   - decode_yenc                              (services/yenc_decoder.py) *)
(* The specifications share the variables below; each one leaves the       *)
(* variables of the other components at their initial values.              *)
(*   RetrySpec : one call of EnhancedRetryHandler.retry / retry_async      *)
(*   Spec      : one call of EnhancedNZBService.download_file              *)
(*   FetchSpec : concurrent _download_segment_internal attempts            *)
(*   PoolSpec  : concurrent users of SSLConnectionManager.get_connection   *)
(*   PoolsSpec : either of the two connection pools and its users          *)
(*   ClassifySpec, ContextSpec : calls of categorize_error                 *)
(*   YencSpec  : one article given to a yEnc decoder                       *)
(*   NzbSpec   : one manifest parsed, or downloaded by download_nzb        *)
(*   SegmentRetrySpec : one call of RetryHandler.retry_async               *)
(*   AddNzbSpec : one call of NZBService.add_nzb_download                  *)
(*                                             (services/nzb_service.py)   *)
(***************************************************************************)
EXTENDS Integers, Sequences, FiniteSets, TLC

VARIABLES
    \* ---- EnhancedRetryHandler (RetrySpec) ----
    handler,        \* [max_retries, base_delay, max_delay] given to __init__
    entry,          \* "retry" (sync) or "retry_async", "none" outside RetrySpec
    rpc,            \* position in the retry loop: call / sleep / returned / raised
    attempt,        \* the loop variable `attempt`
    calls,          \* number of invocations of the wrapped operation so far
    last_error,     \* the local `last_error` (ErrorInfo of the last failure)
    raised,         \* ErrorInfo carried by the error the handler raised
    delays,         \* the delays slept so far, in order
    success_at,     \* value of `calls` at the first successful invocation, 0 if none
    \* ---- EnhancedNZBService.download_file (Spec) ----
    segments,       \* file_info.segments: the segments' numbers, in document order
    opc,            \* position of download_file: start / await / check / failed / done / cancelled
    await_idx,      \* index in `tasks` of the task download_file awaits
    tasks,          \* per segment task: [st, attempt], st in created/sleeping/ok/failed/cancelled
    segment_data,   \* the dict segment_data, as its items in insertion order
    failed_segments,\* the list failed_segments
    combined_data,  \* the bytearray combined_data
    written,        \* bytes written to the output file, <<>> if none
    early,          \* a segment finished while a lower-numbered one was still unfinished
    \* ---- EnhancedNZBService connection handling (FetchSpec) ----
    connection_pool,      \* the list self.connection_pool (idle connections)
    connection_semaphore, \* free permits of self.connection_semaphore
    nntp,                 \* per connection object: "none" (not created), "open", "closed"
    op_failed,            \* connections on which an operation has failed
    fpc,                  \* per fetcher: position in _download_segment_internal
    fconn,                \* per fetcher: the local `connection`, 0 for None
    fmsg,                 \* per fetcher: segment.message_id, until ARTICLE is sent
    fexc,                 \* per fetcher: an exception is propagating
    fetches,              \* number of fetch attempts started so far
    \* ---- SSLConnectionManager (PoolSpec) ----
    connections,          \* the queue self.connections (idle connections), head first
    active_connections,   \* the counter self.active_connections
    total_created,        \* the counter self.total_created
    ssl_errors,           \* the counter self.ssl_errors
    ssl_context,          \* number of the TLS context in use (0 = built by __init__)
    refresh_due,          \* time.time() - self.last_ssl_context_refresh > 60
    sconn,                \* per connection object: "none", "open", "closed"
    dead,                 \* open connections the server has dropped
    tpc,                  \* per thread: position in get_connection
    tconn,                \* per thread: the local `conn`, 0 for None
    \* ---- categorize_error (ClassifySpec, ContextSpec) ----
    cerror,               \* the error given to categorize_error: [type, msg]
    cinfo,                \* (category, severity, retriable) of the ErrorInfo it returned
    pattern_context,      \* the context dict of each ErrorInfo object in ERROR_PATTERNS
    infos,                \* the ErrorInfo objects returned so far, one entry per call
    \* ---- yEnc decoders (YencSpec) ----
    payload,              \* the bytes the poster encoded, NoPayload if the article is not an encoding
    article,              \* the article given to the decoder, from its =ybegin line on
    preamble,             \* the bytes that precede the =ybegin line in the data
    yenc_out,             \* the decoder called and what it returned or raised
    \* ---- NZB manifests and download_nzb (NzbSpec) ----
    doc,                  \* the NZB document read from nzb_path
    npc,                  \* position: start / parsed / files / done
    validation,           \* the diagnostics validate_nzb_content returned
    parsed,               \* the list of files the parser returned
    file_idx,             \* number of files the loop of download_nzb has handled
    downloaded,           \* len(downloaded_files)
    nzb_fetches,          \* segment fetches started by download_file
    results,              \* the list `results` of add_nzb_download, in join order
    nzb_result            \* what download_nzb returned: success and the error caught

retryVars == <<handler, entry, rpc, attempt, calls, last_error, raised, delays, success_at>>

dlVars == <<segments, opc, await_idx, tasks, segment_data, failed_segments,
            combined_data, written, early>>

fetchVars == <<connection_pool, connection_semaphore, nntp, op_failed, fpc, fconn,
               fmsg, fexc, fetches>>

poolVars == <<connections, active_connections, total_created, ssl_errors, ssl_context,
              refresh_due, sconn, dead, tpc, tconn>>

classVars == <<cerror, cinfo, pattern_context, infos>>

\* the variables of the retry handler, the download and the two pools
engineVars == <<retryVars, dlVars, fetchVars, poolVars>>

\* the variables of the classifier, the decoders and the manifest parser
yencVars == <<payload, article, preamble, yenc_out>>

nzbVars == <<doc, npc, validation, parsed, file_idx, downloaded, nzb_fetches, results,
             nzb_result>>

libVars == <<classVars, yencVars, nzbVars>>

vars == <<retryVars, dlVars, fetchVars, poolVars, libVars>>

(***************************************************************************)
(* Bounds                                                                  *)
(***************************************************************************)
MaxRetriesBound == 3          \* handlers are built with max_retries in 0..MaxRetriesBound
MaxSegs == 5                  \* a file has 1..MaxSegs segments
NumFetchers == 3              \* segment fetches that run at the same time
Connections == 2              \* server_config.connections of the service under test
MaxConns == 3                 \* connection objects created in one run
MaxFetches == 5               \* fetch attempts started in one run
NumThreads == 2               \* threads that use SSLConnectionManager.get_connection
PoolMaxConnections == 1       \* max_connections of the manager under test
MaxCreated == 2               \* connections the manager creates in one run
MaxSslErrors == 6             \* TLS failures counted in one run
MaxContexts == 1              \* TLS context rebuilds in one run

BaseDelays == {1, 3}          \* base_delay values tried (seconds)
MaxDelays == {4, 30}          \* max_delay values tried (seconds)

(***************************************************************************)
(* Error taxonomy (error_handling.py)                                      *)
(***************************************************************************)
ErrorCategory ==
    {"nntp_server", "network", "ssl_connection", "yenc_decoding",
     "file_system", "nzb_format", "authentication", "unknown"}

ErrorInfo(c, s, r) == [category |-> c, severity |-> s, retriable |-> r]

NoError == [category |-> "none", severity |-> "none", retriable |-> FALSE]

ERROR_PATTERNS ==
    [k \in {"430", "480", "502", "timeout", "dns", "ssl", "ssl_eof", "ssl_protocol",
            "yenc_crc", "yenc_headers", "yenc_incomplete", "disk_space",
            "permission", "nzb_invalid", "nzb_empty"} |->
       CASE k = "430"             -> ErrorInfo("nntp_server", "high", FALSE)
         [] k = "480"             -> ErrorInfo("authentication", "critical", FALSE)
         [] k = "502"             -> ErrorInfo("authentication", "critical", FALSE)
         [] k = "timeout"         -> ErrorInfo("network", "medium", TRUE)
         [] k = "dns"             -> ErrorInfo("network", "high", TRUE)
         [] k = "ssl"             -> ErrorInfo("ssl_connection", "high", TRUE)
         [] k = "ssl_eof"         -> ErrorInfo("ssl_connection", "medium", TRUE)
         [] k = "ssl_protocol"    -> ErrorInfo("ssl_connection", "high", TRUE)
         [] k = "yenc_crc"        -> ErrorInfo("yenc_decoding", "high", FALSE)
         [] k = "yenc_headers"    -> ErrorInfo("yenc_decoding", "high", FALSE)
         [] k = "yenc_incomplete" -> ErrorInfo("yenc_decoding", "medium", TRUE)
         [] k = "disk_space"      -> ErrorInfo("file_system", "critical", FALSE)
         [] k = "permission"      -> ErrorInfo("file_system", "high", FALSE)
         [] k = "nzb_invalid"     -> ErrorInfo("nzb_format", "critical", FALSE)
         [] k = "nzb_empty"       -> ErrorInfo("nzb_format", "critical", FALSE)]

(***************************************************************************)
(* Error messages.  A message is the sequence of its space-separated       *)
(* words; str(error) is the words joined by single spaces.  Lower is       *)
(* str.lower() on a word, WordHas(w, k) is the Python test  k in w  for a  *)
(* lower-cased word w and a one-word keyword k.                            *)
(***************************************************************************)
Lower(w) ==
    CASE w = "EOF"       -> "eof"
      [] w = "SSL"       -> "ssl"
      [] w = "Simulated" -> "simulated"
      [] w = "CRC"       -> "crc"
      [] w = "No"        -> "no"
      [] w = "Connection" -> "connection"
      [] w = "DNS"       -> "dns"
      [] w = "Invalid"   -> "invalid"
      [] w = "Permission" -> "permission"
      [] w = "Unknown"   -> "unknown"
      [] w = "Empty"     -> "empty"
      [] w = "yEnc"      -> "yenc"
      [] OTHER           -> w

WordHas(w, k) ==
    \/ w = k
    \/ w = "_ssl.c:1000:" /\ k \in {"ssl", "_ssl.c"}
    \/ w = "sslv3"        /\ k = "ssl"
    \/ w = "tlsv1"        /\ k = "tls"
    \/ w = "=ybegin"      /\ k = "ybegin"
    \/ w = "=yend"        /\ k = "yend"

LowerMsg(m) == [i \in 1..Len(m) |-> Lower(m[i])]

\* `k in error_str` for a keyword given as its sequence of words
InStr(k, s) ==
    IF Len(k) = 1
    THEN \E i \in 1..Len(s) : WordHas(s[i], k[1])
    ELSE \E i \in 1..(Len(s) - Len(k) + 1) :
            \A j \in 1..Len(k) : s[i + j - 1] = k[j]

\* a variant that tests the "timeout" rule before the SSL/TLS rules
categorize_key_network_first(error) ==
    LET error_str  == LowerMsg(error.msg)
        error_type == error.type
        has(k)     == InStr(<<k>>, error_str)
        has2(a, b) == InStr(<<a, b>>, error_str)
    IN
    IF has("timeout") \/ error_type = "timeout" THEN "timeout"
    ELSE IF has("ssl") /\ has("eof") THEN "ssl_eof"
    ELSE IF has("ssl") /\ (has("closed") \/ has("connection")) THEN "ssl_eof"
    ELSE IF has("tls") /\ (has("closed") \/ has("eof")) THEN "ssl_eof"
    ELSE IF has("_ssl.c") THEN "ssl_eof"
    ELSE IF has("ssl") /\ has("protocol") THEN "ssl_protocol"
    ELSE IF has("ssl") \/ has("certificate") THEN "ssl"
    ELSE IF has("430") \/ InStr(<<"no", "such", "article">>, error_str) THEN "430"
    ELSE IF has("480") \/ has("authentication") THEN "480"
    ELSE IF has("502") \/ has2("permission", "denied") THEN "502"
    ELSE IF has2("name", "resolution") \/ has("dns") THEN "dns"
    ELSE IF has("crc") THEN "yenc_crc"
    ELSE IF has("ybegin") \/ has("yend") THEN "yenc_headers"
    ELSE IF has("incomplete") \/ has("truncated") THEN "yenc_incomplete"
    ELSE IF has2("no", "space") \/ has2("disk", "full") THEN "disk_space"
    ELSE IF has("permission") /\ has("denied") THEN "permission"
    ELSE IF has("xml") /\ has("invalid") THEN "nzb_invalid"
    ELSE IF has2("no", "files") \/ has("empty") THEN "nzb_empty"
    ELSE "unknown"

\* the if/elif chain of categorize_error: the key of the ERROR_PATTERNS entry
\* it selects, "unknown" for the final else
categorize_key(error) ==
    LET error_str  == LowerMsg(error.msg)
        error_type == error.type
        has(k)     == InStr(<<k>>, error_str)
        has2(a, b) == InStr(<<a, b>>, error_str)
    IN
    IF has("ssl") /\ has("eof") THEN "ssl_eof"
    ELSE IF has("ssl") /\ (has("closed") \/ has("connection")) THEN "ssl_eof"
    ELSE IF has("tls") /\ (has("closed") \/ has("eof")) THEN "ssl_eof"
    ELSE IF has("_ssl.c") THEN "ssl_eof"
    ELSE IF has("ssl") /\ has("protocol") THEN "ssl_protocol"
    ELSE IF has("ssl") \/ has("certificate") THEN "ssl"
    ELSE IF has("430") \/ InStr(<<"no", "such", "article">>, error_str) THEN "430"
    ELSE IF has("480") \/ has("authentication") THEN "480"
    ELSE IF has("502") \/ has2("permission", "denied") THEN "502"
    ELSE IF has("timeout") \/ error_type = "timeout" THEN "timeout"
    ELSE IF has2("name", "resolution") \/ has("dns") THEN "dns"
    ELSE IF has("crc") THEN "yenc_crc"
    ELSE IF has("ybegin") \/ has("yend") THEN "yenc_headers"
    ELSE IF has("incomplete") \/ has("truncated") THEN "yenc_incomplete"
    ELSE IF has2("no", "space") \/ has2("disk", "full") THEN "disk_space"
    ELSE IF has("permission") /\ has("denied") THEN "permission"
    ELSE IF has("xml") /\ has("invalid") THEN "nzb_invalid"
    ELSE IF has2("no", "files") \/ has("empty") THEN "nzb_empty"
    ELSE "unknown"

\* a variant whose final else builds a non-retriable ErrorInfo
categorize_error_unknown_fatal(error) ==
    IF categorize_key(error) = "unknown"
    THEN ErrorInfo("unknown", "medium", FALSE)
    ELSE ERROR_PATTERNS[categorize_key(error)]

\* category, severity and retriable of the ErrorInfo categorize_error returns
categorize_error(error) ==
    IF categorize_key(error) = "unknown"
    THEN ErrorInfo("unknown", "medium", TRUE)
    ELSE ERROR_PATTERNS[categorize_key(error)]

\* Exceptions the wrapped operation raises in the retry model (type name, message)
AuthRequiredError == [type |-> "NNTPTemporaryError", msg |-> <<"480", "authentication", "required">>]
SslEofError       == [type |-> "SSLEOFError", msg |-> <<"_ssl.c:1000:", "EOF", "occurred">>]
NoSuchArticle     == [type |-> "NNTPTemporaryError", msg |-> <<"430", "no", "such", "article">>]
SocketTimedOut    == [type |-> "TimeoutError", msg |-> <<"timed", "out">>]
SimulatedError    == [type |-> "ConnectionError", msg |-> <<"Simulated", "connection", "error">>]
CrcError          == [type |-> "ValueError", msg |-> <<"CRC", "mismatch">>]

Exceptions == {AuthRequiredError, SslEofError, NoSuchArticle, SocketTimedOut,
               SimulatedError, CrcError}

\* ErrorInfo values an NZBDownloadError raised by the operation may carry
ErrorInfos == {ErrorInfo(c, "high", r) : c \in ErrorCategory, r \in BOOLEAN}

\* What one invocation of the wrapped operation does
Outcomes ==
    {[kind |-> "ok"]}
    \cup {[kind |-> "nzb_error", info |-> i] : i \in ErrorInfos}
    \cup {[kind |-> "exception", exc |-> e] : e \in Exceptions}

(***************************************************************************)
(* EnhancedRetryHandler                                                    *)
(***************************************************************************)
RECURSIVE Pow2(_)
Pow2(n) == IF n = 0 THEN 1 ELSE 2 * Pow2(n - 1)

Min(a, b) == IF a < b THEN a ELSE b

\* a variant that ignores the ErrorInfo and retries every failure
should_retry_always(h, error_info, att) ==
    IF att >= h.max_retries THEN FALSE ELSE TRUE

\* a variant without the SSL_CONNECTION clause
should_retry_no_tls_override(h, error_info, att) ==
    IF att >= h.max_retries THEN FALSE ELSE error_info.retriable

\* should_retry(error_info, attempt) of the handler h
should_retry(h, error_info, att) ==
    IF att >= h.max_retries THEN FALSE
    ELSE IF error_info.category = "ssl_connection" THEN TRUE
    ELSE error_info.retriable

\* a variant without the cap
get_delay_uncapped(h, att) == h.base_delay * Pow2(att)

\* get_delay(attempt) of the handler h
get_delay(h, att) == Min(h.base_delay * Pow2(att), h.max_delay)

\* the `except` clauses of the loop body: error_info is e.error_info for an
\* NZBDownloadError and categorize_error(e, context) for any other exception
HandleFailure(error_info) ==
    /\ last_error' = error_info
    /\ IF ~should_retry(handler, error_info, attempt)
       THEN /\ rpc' = "raised"
            /\ raised' = error_info
            /\ delays' = delays
       ELSE IF attempt < handler.max_retries
       THEN /\ rpc' = "sleep"
            /\ delays' = Append(delays, get_delay(handler, attempt))
            /\ raised' = raised
       ELSE /\ rpc' = "raised"
            /\ raised' = error_info
            /\ delays' = delays

\* a variant that drops the `return` of the try block
RetryAttemptNoReturn(o) ==
    /\ rpc = "call"
    /\ calls' = calls + 1
    /\ IF o.kind = "ok"
       THEN /\ success_at' = IF success_at = 0 THEN calls + 1 ELSE success_at
            /\ rpc' = IF attempt < handler.max_retries THEN "sleep" ELSE "returned"
            /\ UNCHANGED <<last_error, raised, delays>>
       ELSE /\ HandleFailure(IF o.kind = "nzb_error" THEN o.info ELSE categorize_error(o.exc))
            /\ success_at' = success_at
    /\ UNCHANGED <<handler, entry, attempt, dlVars, fetchVars, poolVars, libVars>>

\* one iteration of `for attempt in range(self.max_retries + 1)`: the
\* invocation of func and what the handler does with its outcome
RetryAttempt(o) ==
    /\ rpc = "call"
    /\ calls' = calls + 1
    /\ IF o.kind = "ok"
       THEN /\ rpc' = "returned"
            /\ success_at' = calls + 1
            /\ UNCHANGED <<last_error, raised, delays>>
       ELSE /\ HandleFailure(IF o.kind = "nzb_error" THEN o.info ELSE categorize_error(o.exc))
            /\ success_at' = success_at
    /\ UNCHANGED <<handler, entry, attempt, dlVars, fetchVars, poolVars, libVars>>

retry(o) == entry = "retry" /\ RetryAttempt(o)

retry_async(o) == entry = "retry_async" /\ RetryAttempt(o)

\* time.sleep(delay) / await asyncio.sleep(delay) is over: next iteration of
\* the for loop, or `raise last_error` when the range is exhausted
SleepDone ==
    /\ rpc = "sleep"
    /\ IF attempt + 1 <= handler.max_retries
       THEN /\ attempt' = attempt + 1
            /\ rpc' = "call"
            /\ raised' = raised
       ELSE /\ attempt' = attempt
            /\ rpc' = "raised"
            /\ raised' = last_error
    /\ UNCHANGED <<handler, entry, calls, last_error, delays, success_at, dlVars, fetchVars, poolVars, libVars>>

\* download_file is not running (the other specifications)
DownloadIdle ==
    /\ segments = <<>>
    /\ opc = "none"
    /\ await_idx = 0
    /\ tasks = <<>>
    /\ segment_data = <<>>
    /\ failed_segments = <<>>
    /\ combined_data = <<>>
    /\ written = <<>>
    /\ early = FALSE

\* no fetch is running and no connection exists (the other specifications)
FetchIdle ==
    /\ connection_pool = <<>>
    /\ connection_semaphore = 0
    /\ nntp = <<>>
    /\ op_failed = {}
    /\ fpc = <<>>
    /\ fconn = <<>>
    /\ fmsg = <<>>
    /\ fexc = <<>>
    /\ fetches = 0

\* no SSLConnectionManager exists (the other specifications)
PoolIdle ==
    /\ connections = <<>>
    /\ active_connections = 0
    /\ total_created = 0
    /\ ssl_errors = 0
    /\ ssl_context = 0
    /\ refresh_due = FALSE
    /\ sconn = <<>>
    /\ dead = {}
    /\ tpc = <<>>
    /\ tconn = <<>>

\* categorize_error has not been called: every ErrorInfo of ERROR_PATTERNS has
\* the empty context its __post_init__ gave it
ClassifyIdle ==
    /\ cerror = [type |-> "none", msg |-> <<>>]
    /\ cinfo = NoError
    /\ pattern_context = [k \in DOMAIN ERROR_PATTERNS |-> {}]
    /\ infos = <<>>

NoPayload == <<-1>>

NoArticle == [ybegin |-> FALSE, size |-> -1, lines |-> <<>>, yend |-> FALSE, crc |-> <<>>]

NoOutput == [fn |-> "none", kind |-> "none", bytes |-> <<>>, info |-> NoError]

\* no decoder has been called
YencIdle ==
    /\ payload = NoPayload
    /\ article = NoArticle
    /\ preamble = <<>>
    /\ yenc_out = NoOutput

\* no manifest has been read
NzbIdle ==
    /\ doc = [xml |-> "none", root |-> "none", namespaced |-> FALSE, files |-> <<>>]
    /\ npc = "none"
    /\ validation = [valid |-> FALSE, errors |-> <<>>, warnings |-> 0,
                     file_count |-> 0, segment_count |-> 0]
    /\ parsed = <<>>
    /\ file_idx = 0
    /\ downloaded = 0
    /\ nzb_fetches = 0
    /\ results = <<>>
    /\ nzb_result = [success |-> FALSE, error |-> NoError]

LibIdle == ClassifyIdle /\ YencIdle /\ NzbIdle

RetryIdle ==
    /\ handler = [max_retries |-> 0, base_delay |-> 0, max_delay |-> 0]
    /\ entry = "none"
    /\ rpc = "none"
    /\ attempt = 0
    /\ calls = 0
    /\ last_error = NoError
    /\ raised = NoError
    /\ delays = <<>>
    /\ success_at = 0

RetryInit ==
    /\ handler \in [max_retries : 0..MaxRetriesBound, base_delay : BaseDelays, max_delay : MaxDelays]
    /\ entry \in {"retry", "retry_async"}
    /\ rpc = "call"
    /\ attempt = 0
    /\ calls = 0
    /\ last_error = NoError
    /\ raised = NoError
    /\ delays = <<>>
    /\ success_at = 0
    /\ DownloadIdle
    /\ FetchIdle
    /\ PoolIdle
    /\ LibIdle

RetryNext ==
    \/ \E o \in Outcomes : retry(o)
    \/ \E o \in Outcomes : retry_async(o)
    \/ SleepDone

RetrySpec == RetryInit /\ [][RetryNext]_vars

(***************************************************************************)
(* RetryHandler of nzb_service.py, the handler NZBService.download_segment *)
(* retries through.  handler.base_delay holds initial_delay; last_error is *)
(* kept as the classification of the exception caught.                     *)
(***************************************************************************)
\* one iteration of `for attempt in range(self.max_retries)`: every
\* exception is caught, and followed by a sleep unless it was the last
\* iteration, after which `raise last_error` ends the call
RetryHandler_retry_async(o) ==
    /\ entry = "RetryHandler.retry_async"
    /\ rpc = "call"
    /\ calls' = calls + 1
    /\ IF o.kind = "ok"
       THEN /\ rpc' = "returned"
            /\ success_at' = calls + 1
            /\ UNCHANGED <<last_error, raised, delays>>
       ELSE /\ last_error' = (IF o.kind = "nzb_error" THEN o.info ELSE categorize_error(o.exc))
            /\ success_at' = success_at
            /\ IF attempt < handler.max_retries - 1
               THEN /\ rpc' = "sleep"
                    /\ delays' = Append(delays, handler.base_delay * Pow2(attempt))
                    /\ raised' = raised
               ELSE /\ rpc' = "raised"
                    /\ raised' = last_error'
                    /\ delays' = delays
    /\ UNCHANGED <<handler, entry, attempt, dlVars, fetchVars, poolVars, libVars>>

\* RetryHandler(max_retries=config.max_retries); range(0) makes no attempt
\* and retry_async returns None
SegmentRetryInit ==
    /\ handler \in [max_retries : 0..MaxRetriesBound, base_delay : {1}, max_delay : {0}]
    /\ entry = "RetryHandler.retry_async"
    /\ rpc = IF handler.max_retries = 0 THEN "returned" ELSE "call"
    /\ attempt = 0
    /\ calls = 0
    /\ last_error = NoError
    /\ raised = NoError
    /\ delays = <<>>
    /\ success_at = 0
    /\ DownloadIdle
    /\ FetchIdle
    /\ PoolIdle
    /\ LibIdle

SegmentRetrySpec ==
    /\ SegmentRetryInit
    /\ [][(\E o \in Outcomes : RetryHandler_retry_async(o)) \/ SleepDone]_vars

(***************************************************************************)
(* EnhancedNZBService.download_file                                        *)
(* The segment tasks run on one asyncio event loop.  A task runs without   *)
(* interruption from one suspension point to the next, and the only        *)
(* suspension point of a segment task is the backoff sleep of retry_async  *)
(* (_download_segment_internal contains no await), so one fetch attempt    *)
(* with the handler's decision is one step.                                *)
(***************************************************************************)
\* the handler built in EnhancedNZBService.__init__
ServiceHandler == [max_retries |-> 3, base_delay |-> 1, max_delay |-> 30]

\* Manifests: the segment numbers _parse_with_etree reads from the `number`
\* attributes, in document order (it neither sorts nor checks them):
\* ascending from 1, descending to 1, no number attribute at all (every
\* number is the default 0), numbered from 2, first number used twice.
Manifests(n) ==
    { [i \in 1..n |-> i],
      [i \in 1..n |-> n + 1 - i],
      [i \in 1..n |-> 0],
      [i \in 1..n |-> i + 1],
      [i \in 1..n |-> IF i = 1 THEN 1 ELSE i - 1] }

\* the decoded bytes of the segment at position p of the file: two bytes
\* that identify the segment
Payload(p) == <<2 * p - 1, 2 * p>>

\* errors a fetch attempt ends with: article not found, a timeout
FetchOutcomes ==
    {[kind |-> "ok"]} \cup
    {[kind |-> "nzb_error", info |-> i] : i \in {ERROR_PATTERNS["430"], ERROR_PATTERNS["timeout"]}}

TaskDone(t) == tasks[t].st \in {"ok", "failed"}

\* what retry_async makes of the outcome o of attempt number att of task t
TaskAfterAttempt(o, att) ==
    IF o.kind = "ok" THEN [st |-> "ok", attempt |-> 0]
    ELSE IF should_retry(ServiceHandler, o.info, att) /\ att < ServiceHandler.max_retries
         THEN [st |-> "sleeping", attempt |-> att]
         ELSE [st |-> "failed", attempt |-> 0]

LowerUnfinished(t) == \E u \in 1..Len(segments) : segments[u] < segments[t] /\ ~TaskDone(u)

RunAttempt(t, o, att) ==
    /\ tasks' = [tasks EXCEPT ![t] = TaskAfterAttempt(o, att)]
    /\ early' = (early \/ (o.kind = "ok" /\ LowerUnfinished(t)))
    /\ UNCHANGED <<segments, opc, await_idx, segment_data, failed_segments,
                   combined_data, written, retryVars, fetchVars, poolVars, libVars>>

\* the loop that creates one task per segment
CreateTasks ==
    /\ opc = "start"
    /\ tasks' = [t \in 1..Len(segments) |-> [st |-> "created", attempt |-> 0]]
    /\ opc' = "await"
    /\ await_idx' = 1
    /\ UNCHANGED <<segments, segment_data, failed_segments, combined_data, written,
                   early, retryVars, fetchVars, poolVars, libVars>>

\* first run of a task: download_segment_with_retry up to the end of its
\* first attempt; the event loop starts the tasks in creation order
download_segment_with_retry(t, o) ==
    /\ opc # "start"
    /\ t \in 1..Len(tasks)
    /\ tasks[t].st = "created"
    /\ \A u \in 1..(t - 1) : tasks[u].st # "created"
    /\ RunAttempt(t, o, 0)

\* the backoff sleep of a task is over: next attempt
TaskWake(t, o) ==
    /\ t \in 1..Len(tasks)
    /\ tasks[t].st = "sleeping"
    /\ RunAttempt(t, o, tasks[t].attempt + 1)

\* segment_data[k] = v on a dict kept as its items in insertion order
DictSet(d, k, v) ==
    IF \E i \in 1..Len(d) : d[i].key = k
    THEN [i \in 1..Len(d) |-> IF d[i].key = k THEN [key |-> k, val |-> v] ELSE d[i]]
    ELSE Append(d, [key |-> k, val |-> v])

DictHas(d, k) == \E i \in 1..Len(d) : d[i].key = k

DictGet(d, k) == d[CHOOSE i \in 1..Len(d) : d[i].key = k].val

\* where download_file goes after the await of task idx of n came back
\* (a variant that stops waiting at the first failed task)
AfterAwaitAbortOnFailure(idx, n, ok) == IF idx = n \/ ~ok THEN "check" ELSE "await"

AfterAwait(idx, n, ok) == IF idx = n THEN "check" ELSE "await"

\* `data = await task` returns or raises for the task awaited
AwaitTask ==
    /\ opc = "await"
    /\ TaskDone(await_idx)
    /\ IF tasks[await_idx].st = "ok"
       THEN /\ segment_data' = DictSet(segment_data, segments[await_idx], await_idx)
            /\ failed_segments' = failed_segments
       ELSE /\ failed_segments' = Append(failed_segments, segments[await_idx])
            /\ segment_data' = segment_data
    /\ opc' = AfterAwait(await_idx, Len(segments), tasks[await_idx].st = "ok")
    /\ await_idx' = IF opc' = "await" THEN await_idx + 1 ELSE await_idx
    /\ UNCHANGED <<segments, tasks, combined_data, written, early, retryVars, fetchVars, poolVars, libVars>>

\* The task that runs download_file is cancelled (Task.cancel(), the only
\* stop signal there is) while it is suspended in `data = await task`:
\* asyncio cancels the awaited task with it, CancelledError is no Exception
\* and leaves download_file; the other tasks stay scheduled
Cancel ==
    /\ opc = "await"
    /\ opc' = "cancelled"
    /\ tasks' = IF TaskDone(await_idx) THEN tasks
                ELSE [tasks EXCEPT ![await_idx] = [st |-> "cancelled", attempt |-> 0]]
    /\ UNCHANGED <<segments, await_idx, segment_data, failed_segments, combined_data,
                   written, early, retryVars, fetchVars, poolVars, libVars>>

\* success_rate < 0.8 for success_rate = k / n.  The float quotient of k and
\* n is below the float 0.8 exactly when 5k < 4n for every n below 10^15.
BelowThreshold(k, n) == 5 * k < 4 * n

RECURSIVE CombineRange(_, _, _)
CombineRange(d, i, n) ==
    IF i > n THEN <<>>
    ELSE (IF DictHas(d, i) THEN Payload(DictGet(d, i)) ELSE <<>>) \o CombineRange(d, i + 1, n)

RECURSIVE CombineItems(_, _)
CombineItems(d, i) ==
    IF i > Len(d) THEN <<>> ELSE Payload(d[i].val) \o CombineItems(d, i + 1)

\* a variant that joins the values of segment_data in the order of the dict
CombineInsertionOrder(d, n) == CombineItems(d, 1)

\* the loop `for i in range(1, len(file_info.segments) + 1)`
Combine(d, n) == CombineRange(d, 1, n)

\* the success-rate check, then reassembly and the write of the file
CheckAndCombine ==
    /\ opc = "check"
    /\ IF BelowThreshold(Len(segment_data), Len(segments))
       THEN /\ opc' = "failed"
            /\ raised' = ErrorInfo("nntp_server", "high", FALSE)
            /\ UNCHANGED <<combined_data, written>>
       ELSE /\ opc' = "done"
            /\ combined_data' = Combine(segment_data, Len(segments))
            /\ written' = combined_data'
            /\ raised' = raised
    /\ UNCHANGED <<segments, await_idx, tasks, segment_data, failed_segments, early,
                   handler, entry, rpc, attempt, calls, last_error, delays, success_at,
                   fetchVars, poolVars, libVars>>

Init ==
    /\ RetryIdle
    /\ FetchIdle
    /\ PoolIdle
    /\ LibIdle
    /\ \E n \in 1..MaxSegs : segments \in Manifests(n)
    /\ opc = "start"
    /\ await_idx = 0
    /\ tasks = <<>>
    /\ segment_data = <<>>
    /\ failed_segments = <<>>
    /\ combined_data = <<>>
    /\ written = <<>>
    /\ early = FALSE

Next ==
    \/ CreateTasks
    \/ \E t \in 1..MaxSegs, o \in FetchOutcomes : download_segment_with_retry(t, o)
    \/ \E t \in 1..MaxSegs, o \in FetchOutcomes : TaskWake(t, o)
    \/ AwaitTask
    \/ Cancel
    \/ CheckAndCombine

Spec == Init /\ [][Next]_vars

(***************************************************************************)
(* EnhancedNZBService: _download_segment_internal, _get_connection and     *)
(* _return_connection, run by NumFetchers concurrent fetchers.  The steps  *)
(* are the points where the code takes or gives back the semaphore or the  *)
(* pool lock, or talks to the server; a block under pool_lock is one step. *)
(***************************************************************************)
Fetchers == 1..NumFetchers

Created == {c \in 1..Len(nntp) : nntp[c] # "none"}

InPool(c) == \E i \in 1..Len(connection_pool) : connection_pool[i] = c

\* _download_segment_internal(segment, context) is called for a segment
\* whose message_id is the stripped text of its element, "" for an element
\* of white space; `with self.connection_semaphore:` is entered (blocks while
\* no permit is free)
FetchEnter(w) ==
    /\ fpc[w] = "idle"
    /\ fetches < MaxFetches
    /\ connection_semaphore > 0
    /\ connection_semaphore' = connection_semaphore - 1
    /\ fetches' = fetches + 1
    /\ fpc' = [fpc EXCEPT ![w] = "get"]
    /\ \E m \in {"", "part1@example"} : fmsg' = [fmsg EXCEPT ![w] = m]
    /\ UNCHANGED <<connection_pool, nntp, op_failed, fconn, fexc, retryVars, dlVars, poolVars, libVars>>

\* connection = self._get_connection(), under pool_lock: the last idle
\* connection, else a new one from _create_connection, which may raise
_get_connection(w) ==
    /\ fpc[w] = "get"
    /\ IF connection_pool # <<>>
       THEN /\ fconn' = [fconn EXCEPT ![w] = connection_pool[Len(connection_pool)]]
            /\ connection_pool' = SubSeq(connection_pool, 1, Len(connection_pool) - 1)
            /\ fpc' = [fpc EXCEPT ![w] = "article"]
            /\ UNCHANGED <<nntp, fexc>>
       ELSE \/ /\ Cardinality(Created) < MaxConns
               /\ LET c == Cardinality(Created) + 1 IN
                     /\ nntp' = [nntp EXCEPT ![c] = "open"]
                     /\ fconn' = [fconn EXCEPT ![w] = c]
               /\ fpc' = [fpc EXCEPT ![w] = "article"]
               /\ UNCHANGED <<connection_pool, fexc>>
            \/ /\ fexc' = [fexc EXCEPT ![w] = TRUE]
               /\ fpc' = [fpc EXCEPT ![w] = "finally"]
               /\ UNCHANGED <<connection_pool, nntp, fconn>>
    /\ UNCHANGED <<connection_semaphore, op_failed, fmsg, fetches, retryVars, dlVars, poolVars, libVars>>

\* response = connection.article(f"<{segment.message_id}>"), the only use of
\* the message id in the attempt: a 220 response, another response
\* (NZBDownloadError raised by the code), or an exception from the connection
\* (NNTP error, TLS error, timeout)
ArticleResults == {"220", "non220", "exception"}

Article(w, r) ==
    /\ fpc[w] = "article"
    /\ IF r = "220"
       THEN /\ fpc' = [fpc EXCEPT ![w] = "decode"]
            /\ UNCHANGED <<op_failed, fexc>>
       ELSE /\ op_failed' = op_failed \cup {fconn[w]}
            /\ fexc' = [fexc EXCEPT ![w] = TRUE]
            /\ fpc' = [fpc EXCEPT ![w] = "finally"]
    /\ fmsg' = [fmsg EXCEPT ![w] = "none"]
    /\ UNCHANGED <<connection_pool, connection_semaphore, nntp, fconn, fetches,
                   retryVars, dlVars, poolVars, libVars>>

\* decoded_data = self._decode_yenc_data(article_data): returns or raises
Decode(w, ok) ==
    /\ fpc[w] = "decode"
    /\ fexc' = [fexc EXCEPT ![w] = ~ok]
    /\ fpc' = [fpc EXCEPT ![w] = "finally"]
    /\ UNCHANGED <<connection_pool, connection_semaphore, nntp, op_failed, fconn,
                   fmsg, fetches, retryVars, dlVars, poolVars, libVars>>

\* a variant without `finally`: the connection is given back on the normal
\* path only
ReturnsConnectionOnSuccessOnly(conn, exc) == conn # 0 /\ ~exc

\* `finally: if connection:`
ReturnsConnection(conn, exc) == conn # 0

\* the finally block: self._return_connection(connection), under pool_lock
_return_connection(w) ==
    /\ fpc[w] = "finally"
    /\ IF ReturnsConnection(fconn[w], fexc[w])
       THEN /\ IF Len(connection_pool) < Connections
               THEN /\ connection_pool' = Append(connection_pool, fconn[w])
                    /\ nntp' = nntp
               ELSE /\ nntp' = [nntp EXCEPT ![fconn[w]] = "closed"]
                    /\ connection_pool' = connection_pool
            /\ fconn' = [fconn EXCEPT ![w] = 0]
       ELSE UNCHANGED <<connection_pool, nntp, fconn>>
    /\ fpc' = [fpc EXCEPT ![w] = "release"]
    /\ UNCHANGED <<connection_semaphore, op_failed, fmsg, fexc, fetches, retryVars, dlVars, poolVars, libVars>>

\* the `with self.connection_semaphore:` block is left: the attempt is over
FetchExit(w) ==
    /\ fpc[w] = "release"
    /\ connection_semaphore' = connection_semaphore + 1
    /\ fpc' = [fpc EXCEPT ![w] = "idle"]
    /\ fexc' = [fexc EXCEPT ![w] = FALSE]
    /\ fmsg' = [fmsg EXCEPT ![w] = "none"]
    /\ UNCHANGED <<connection_pool, nntp, op_failed, fconn, fetches, retryVars, dlVars, poolVars, libVars>>

FetchInit ==
    /\ RetryIdle
    /\ DownloadIdle
    /\ PoolIdle
    /\ LibIdle
    /\ connection_pool = <<>>
    /\ connection_semaphore = Connections
    /\ nntp = [c \in 1..MaxConns |-> "none"]
    /\ op_failed = {}
    /\ fpc = [w \in Fetchers |-> "idle"]
    /\ fconn = [w \in Fetchers |-> 0]
    /\ fmsg = [w \in Fetchers |-> "none"]
    /\ fexc = [w \in Fetchers |-> FALSE]
    /\ fetches = 0

FetchNext ==
    \E w \in Fetchers :
        \/ FetchEnter(w)
        \/ _get_connection(w)
        \/ \E r \in ArticleResults : Article(w, r)
        \/ \E ok \in BOOLEAN : Decode(w, ok)
        \/ _return_connection(w)
        \/ FetchExit(w)

FetchSpec == FetchInit /\ [][FetchNext]_vars

(***************************************************************************)
(* SSLConnectionManager: get_connection used by NumThreads threads.  The   *)
(* steps are the calls that reach the queue, the server or the counters.   *)
(***************************************************************************)
Threads == 1..NumThreads

\* a variant whose queue takes one connection more than configured
max_connections_plus_one == PoolMaxConnections + 1

max_connections == PoolMaxConnections

OpenConns == {c \in 1..Len(sconn) : sconn[c] = "open"}

Queued(c) == \E i \in 1..Len(connections) : connections[i] = c

\* _test_connection(conn): conn.date() succeeds on a connection the server
\* has not dropped
_test_connection(c) == c \notin dead

\* conn.quit(): the socket is closed, also when QUIT itself raises
Quit(c) ==
    /\ sconn' = [sconn EXCEPT ![c] = "closed"]
    /\ dead' = dead \ {c}

\* conn = self.connections.get_nowait(), queue.Empty passes
GetNowait(t) ==
    /\ tpc[t] = "idle"
    /\ IF connections # <<>>
       THEN /\ tconn' = [tconn EXCEPT ![t] = Head(connections)]
            /\ connections' = Tail(connections)
            /\ tpc' = [tpc EXCEPT ![t] = "test_idle"]
       ELSE /\ tpc' = [tpc EXCEPT ![t] = "create"]
            /\ UNCHANGED <<connections, tconn>>
    /\ UNCHANGED <<active_connections, total_created, ssl_errors, ssl_context,
                   refresh_due, sconn, dead, retryVars, dlVars, fetchVars, libVars>>

\* the health check of the connection taken from the queue; a dropped one is
\* quit, and when QUIT raises the except clauses end the call (an SSLError is
\* counted)
TestIdle(t, quit_result) ==
    /\ tpc[t] = "test_idle"
    /\ IF _test_connection(tconn[t])
       THEN /\ quit_result = "ok"
            /\ tpc' = [tpc EXCEPT ![t] = "yield"]
            /\ UNCHANGED <<tconn, sconn, dead, ssl_errors>>
       ELSE /\ Quit(tconn[t])
            /\ tconn' = [tconn EXCEPT ![t] = 0]
            /\ tpc' = [tpc EXCEPT ![t] = IF quit_result = "ok" THEN "create" ELSE "idle"]
            /\ IF quit_result = "ssl_error"
               THEN ssl_errors < MaxSslErrors /\ ssl_errors' = ssl_errors + 1
               ELSE ssl_errors' = ssl_errors
    /\ UNCHANGED <<connections, active_connections, total_created, ssl_context,
                   refresh_due, retryVars, dlVars, fetchVars, libVars>>

\* more than 60 seconds have passed since __init__ or the last rebuild
SixtySecondsPass ==
    /\ ~refresh_due
    /\ refresh_due' = TRUE
    /\ UNCHANGED <<connections, active_connections, total_created, ssl_errors,
                   ssl_context, sconn, dead, tpc, tconn, retryVars, dlVars, fetchVars, libVars>>

\* a variant that rebuilds whenever ssl_errors > 5
_refresh_ssl_context_no_wait ==
    IF ssl_errors > 5
    THEN <<ssl_context + 1, 0, FALSE>>
    ELSE <<ssl_context, ssl_errors, refresh_due>>

\* _refresh_ssl_context: the (ssl_context, ssl_errors, refresh_due) it leaves
_refresh_ssl_context ==
    IF ssl_errors > 5 /\ refresh_due
    THEN <<ssl_context + 1, 0, FALSE>>
    ELSE <<ssl_context, ssl_errors, refresh_due>>

\* conn = self._create_connection(), with the except clauses of
\* get_connection when it raises: an SSLError is counted in both places
_create_connection(t, result) ==
    /\ tpc[t] = "create"
    /\ LET refreshed == _refresh_ssl_context IN
       /\ refreshed[1] <= MaxContexts
       /\ ssl_context' = refreshed[1]
       /\ refresh_due' = refreshed[3]
       /\ CASE result = "ok" ->
                 /\ total_created < MaxCreated
                 /\ sconn' = [sconn EXCEPT ![total_created + 1] = "open"]
                 /\ total_created' = total_created + 1
                 /\ active_connections' = active_connections + 1
                 /\ tconn' = [tconn EXCEPT ![t] = total_created + 1]
                 /\ tpc' = [tpc EXCEPT ![t] = "yield"]
                 /\ ssl_errors' = refreshed[2]
            [] result = "ssl_error" ->
                 /\ refreshed[2] + 2 <= MaxSslErrors
                 /\ ssl_errors' = refreshed[2] + 2
                 /\ tpc' = [tpc EXCEPT ![t] = "idle"]
                 /\ UNCHANGED <<sconn, total_created, active_connections, tconn>>
            [] OTHER ->
                 /\ ssl_errors' = refreshed[2]
                 /\ tpc' = [tpc EXCEPT ![t] = "idle"]
                 /\ UNCHANGED <<sconn, total_created, active_connections, tconn>>
    /\ UNCHANGED <<connections, dead, retryVars, dlVars, fetchVars, libVars>>

\* the body of the caller's `with` statement runs on the yielded connection:
\* it ends normally, or raises and the except clauses quit the connection
Use(t, result) ==
    /\ tpc[t] = "yield"
    /\ IF result = "ok"
       THEN /\ tpc' = [tpc EXCEPT ![t] = "finally"]
            /\ UNCHANGED <<tconn, sconn, dead, ssl_errors>>
       ELSE /\ Quit(tconn[t])
            /\ tconn' = [tconn EXCEPT ![t] = 0]
            /\ tpc' = [tpc EXCEPT ![t] = "idle"]
            /\ IF result = "ssl_error"
               THEN ssl_errors < MaxSslErrors /\ ssl_errors' = ssl_errors + 1
               ELSE ssl_errors' = ssl_errors
    /\ UNCHANGED <<connections, active_connections, total_created, ssl_context,
                   refresh_due, retryVars, dlVars, fetchVars, libVars>>

\* the finally block on the normal path: the connection goes back to the
\* queue when it passes the health check and the queue has room, else it is
\* quit; the counter is decremented unless QUIT raised
Finally(t, quit_raised) ==
    /\ tpc[t] = "finally"
    /\ IF _test_connection(tconn[t]) /\ Len(connections) < max_connections
       THEN /\ ~quit_raised
            /\ connections' = Append(connections, tconn[t])
            /\ UNCHANGED <<sconn, dead, active_connections>>
       ELSE /\ Quit(tconn[t])
            /\ connections' = connections
            /\ active_connections' =
                  IF quit_raised THEN active_connections ELSE active_connections - 1
    /\ tconn' = [tconn EXCEPT ![t] = 0]
    /\ tpc' = [tpc EXCEPT ![t] = "idle"]
    /\ UNCHANGED <<total_created, ssl_errors, ssl_context, refresh_due, retryVars, dlVars, fetchVars, libVars>>

\* the server drops an open connection
ServerDrops(c) ==
    /\ c \in OpenConns
    /\ c \notin dead
    /\ dead' = dead \cup {c}
    /\ UNCHANGED <<connections, active_connections, total_created, ssl_errors,
                   ssl_context, refresh_due, sconn, tpc, tconn, retryVars, dlVars, fetchVars, libVars>>

\* close_all_connections: every queued connection is quit, the counter reset
close_all_connections ==
    /\ connections # <<>> \/ active_connections # 0
    /\ sconn' = [c \in 1..Len(sconn) |-> IF Queued(c) THEN "closed" ELSE sconn[c]]
    /\ dead' = {c \in dead : ~Queued(c)}
    /\ connections' = <<>>
    /\ active_connections' = 0
    /\ UNCHANGED <<total_created, ssl_errors, ssl_context, refresh_due, tpc, tconn,
                   retryVars, dlVars, fetchVars, libVars>>

PoolInit ==
    /\ RetryIdle
    /\ DownloadIdle
    /\ FetchIdle
    /\ LibIdle
    /\ connections = <<>>
    /\ active_connections = 0
    /\ total_created = 0
    /\ ssl_errors = 0
    /\ ssl_context = 0
    /\ refresh_due = FALSE
    /\ sconn = [c \in 1..MaxCreated |-> "none"]
    /\ dead = {}
    /\ tpc = [t \in Threads |-> "idle"]
    /\ tconn = [t \in Threads |-> 0]

CallResults == {"ok", "ssl_error", "error"}

PoolNext ==
    \/ \E t \in Threads : GetNowait(t)
    \/ \E t \in Threads, r \in CallResults : TestIdle(t, r)
    \/ \E t \in Threads, r \in CallResults : _create_connection(t, r)
    \/ SixtySecondsPass
    \/ \E t \in Threads, r \in CallResults : Use(t, r)
    \/ \E t \in Threads, q \in BOOLEAN : Finally(t, q)
    \/ \E c \in 1..MaxCreated : ServerDrops(c)
    \/ close_all_connections

PoolSpec == PoolInit /\ [][PoolNext]_vars

\* one of the two pools with its concurrent users: the service's
\* connection_pool with its fetchers, or the manager's queue with its threads
\* the users are those of the pool that exists; without a manager no server
\* connection of it is open and nothing is left to close
PoolsNext ==
    \/ \E w \in DOMAIN fpc : FetchEnter(w)
    \/ \E w \in DOMAIN fpc : _get_connection(w)
    \/ \E w \in DOMAIN fpc, r \in ArticleResults : Article(w, r)
    \/ \E w \in DOMAIN fpc, ok \in BOOLEAN : Decode(w, ok)
    \/ \E w \in DOMAIN fpc : _return_connection(w)
    \/ \E w \in DOMAIN fpc : FetchExit(w)
    \/ \E t \in DOMAIN tpc : GetNowait(t)
    \/ \E t \in DOMAIN tpc, r \in CallResults : TestIdle(t, r)
    \/ \E t \in DOMAIN tpc, r \in CallResults : _create_connection(t, r)
    \/ tpc # <<>> /\ SixtySecondsPass
    \/ \E t \in DOMAIN tpc, r \in CallResults : Use(t, r)
    \/ \E t \in DOMAIN tpc, q \in BOOLEAN : Finally(t, q)
    \/ \E c \in 1..MaxCreated : ServerDrops(c)
    \/ close_all_connections

PoolsSpec == (FetchInit \/ PoolInit) /\ [][PoolsNext]_vars

(***************************************************************************)
(* categorize_error as it is called (error_handling.py).                   *)
(*   ClassifySpec : one call on an error drawn from a bounded set          *)
(*   ContextSpec  : a sequence of calls, as the retry handler and the      *)
(*                  decorators make them during a download                 *)
(* A context dict is the set of its (key, value) items.                    *)
(***************************************************************************)
MaxWords == 2                 \* words in a generated error message
MaxClassified == 2            \* calls of categorize_error in one run

\* the keywords categorize_error looks for, some in upper case, and words
\* that contain none of them
Vocabulary ==
    {"ssl", "SSL", "eof", "EOF", "closed", "connection", "tls", "_ssl.c:1000:",
     "protocol", "certificate", "430", "no", "such", "article", "480",
     "authentication", "502", "permission", "denied", "timeout", "name",
     "resolution", "dns", "crc", "ybegin", "yend", "incomplete", "truncated",
     "space", "disk", "full", "xml", "invalid", "files", "empty", "error",
     "timed", "out"}

WordSeqs(n) == UNION {[1..k -> Vocabulary] : k \in 0..n}

\* the messages of test_error_categorization
TestMessages ==
    {<<"430", "No", "such", "article">>, <<"480", "Authentication", "required">>,
     <<"Connection", "timeout">>, <<"yEnc", "CRC", "mismatch">>,
     <<"DNS", "resolution", "failed">>, <<"SSL", "handshake", "failed">>,
     <<"Invalid", "ybegin", "line">>, <<"No", "space", "left", "on", "device">>,
     <<"Permission", "denied">>, <<"Unknown", "random", "error">>}

\* type(error).__name__ of socket.timeout: "timeout" before Python 3.10,
\* "TimeoutError" (socket.timeout is an alias of the builtin) from 3.10 on
SocketTimeoutNames == {"timeout", "TimeoutError"}

\* the context arguments of the callers: retry_async called by
\* download_segment_with_retry, the decorators, and the default None
Contexts ==
    {{},
     {<<"segment_number", 1>>, <<"file_name", "a.bin">>},
     {<<"segment_number", 2>>, <<"file_name", "a.bin">>},
     {<<"function", "_create_connection">>}}

\* dict.update
DictUpdate(dict, other) ==
    {p \in dict : \A q \in other : q[1] # p[1]} \cup other

\* categorize_error(error, context): the chain selects an ErrorInfo object of
\* ERROR_PATTERNS (or builds one in the final else), info.context.update
\* changes that object, and the object is returned.  infos records, per call,
\* the object returned (key), the context passed and, for an object built by
\* the call, its context
categorize_call(error, context) ==
    LET key == categorize_key(error) IN
    /\ Len(infos) < MaxClassified
    /\ cerror' = error
    /\ cinfo' = categorize_error(error)
    /\ pattern_context' =
          IF key = "unknown" THEN pattern_context
          ELSE [pattern_context EXCEPT ![key] = DictUpdate(@, context)]
    /\ infos' = Append(infos, [key |-> key, context |-> context,
                               own |-> IF key = "unknown" THEN DictUpdate({}, context) ELSE {}])

\* the first call after the module was loaded, on the error drawn by ClassifyInit
ClassifyOnce(context) ==
    /\ cinfo = NoError
    /\ categorize_call(cerror, context)
    /\ UNCHANGED <<engineVars, yencVars, nzbVars>>

EngineIdle == RetryIdle /\ DownloadIdle /\ FetchIdle /\ PoolIdle

ClassifyInit ==
    /\ EngineIdle
    /\ NzbIdle
    /\ YencIdle
    /\ cerror \in [type : {"Exception"} \cup SocketTimeoutNames, msg : WordSeqs(MaxWords) \cup TestMessages]
    /\ cinfo = NoError
    /\ pattern_context = [k \in DOMAIN ERROR_PATTERNS |-> {}]
    /\ infos = <<>>

ClassifyNext == \E c \in Contexts : ClassifyOnce(c)

ClassifySpec == ClassifyInit /\ [][ClassifyNext]_vars

ContextInit ==
    /\ EngineIdle
    /\ NzbIdle
    /\ ClassifyIdle
    /\ YencIdle

\* a call made by the retry handler or by a decorator
categorize(error, context) ==
    /\ categorize_call(error, context)
    /\ UNCHANGED <<engineVars, yencVars, nzbVars>>

\* the errors classified during a download
ContextNext ==
    \E e \in Exceptions \cup {[type |-> "Exception", msg |-> m] : m \in TestMessages},
       c \in Contexts : categorize(e, c)

ContextSpec == ContextInit /\ [][ContextNext]_vars

(***************************************************************************)
(* yEnc decoding (services/yenc_decoder.py, nzb_service_enhanced.py).      *)
(* A byte is a number in 0..255.  An article is                            *)
(*   [ybegin, size, lines, yend, crc]                                      *)
(* the "=ybegin ... size=<size> ..." line if ybegin, the lines that follow *)
(* it (each the sequence of its bytes, without its CR LF), the "=yend"     *)
(* line if yend, and the value of its crc32= / pcrc32= field as the pair   *)
(* of its 16-bit halves (<<>> when the field is absent).  Lines end with   *)
(* CR LF.                                                                  *)
(* YencSpec: one article drawn from a bounded set is given to one of the   *)
(* decoders.                                                               *)
(***************************************************************************)
MaxLen == 3                   \* bytes in a generated payload or body

CR == 13
LF == 10
ESC == 61                     \* ord('=')

\* yEnc as the poster applies it: (b + 42) mod 256, and "=" followed by
\* (e + 64) mod 256 for an encoded byte e that is NUL, LF, CR or "="
EncodeByte(b) ==
    LET e == (b + 42) % 256 IN
    IF e \in {0, LF, CR, ESC} THEN <<ESC, (e + 64) % 256>> ELSE <<e>>

\* the encoded lines of B, a new line after n or more characters
RECURSIVE EncodeLines(_, _, _)
EncodeLines(B, cur, n) ==
    IF B = <<>> THEN (IF cur = <<>> THEN <<>> ELSE <<cur>>)
    ELSE LET line == cur \o EncodeByte(Head(B)) IN
         IF Len(line) >= n
         THEN <<line>> \o EncodeLines(Tail(B), <<>>, n)
         ELSE EncodeLines(Tail(B), line, n)

yenc_encode(B, n, crc) ==
    [ybegin |-> TRUE, size |-> Len(B), lines |-> EncodeLines(B, <<>>, n),
     yend |-> TRUE, crc |-> crc]

\* _calc_crc32 on 32-bit words given as <<high 16 bits, low 16 bits>>
RECURSIVE Xor(_, _, _)
Xor(a, b, bits) ==
    IF bits = 0 THEN 0
    ELSE ((a + b) % 2) + 2 * Xor(a \div 2, b \div 2, bits - 1)

PolyHigh == 60856             \* 0xEDB8
PolyLow == 33568              \* 0x8320

ShiftRight(crc) == <<crc[1] \div 2, crc[2] \div 2 + 32768 * (crc[1] % 2)>>

\* `for _ in range(8)`: crc = (crc >> 1) ^ 0xEDB88320 if crc & 1 else crc >> 1
RECURSIVE CrcRounds(_, _)
CrcRounds(crc, n) ==
    IF n = 0 THEN crc
    ELSE IF crc[2] % 2 = 1
    THEN CrcRounds(<<Xor(ShiftRight(crc)[1], PolyHigh, 16),
                     Xor(ShiftRight(crc)[2], PolyLow, 16)>>, n - 1)
    ELSE CrcRounds(ShiftRight(crc), n - 1)

\* crc after the first k bytes of data: `crc ^= b` and the eight rounds
RECURSIVE CrcBytes(_, _)
CrcBytes(data, k) ==
    IF k = 0 THEN <<65535, 65535>>
    ELSE LET crc == CrcBytes(data, k - 1) IN
         CrcRounds(<<crc[1], Xor(crc[2], data[k], 16)>>, 8)

_calc_crc32(data) ==
    LET crc == CrcBytes(data, Len(data)) IN <<65535 - crc[1], 65535 - crc[2]>>

\* bytes.decode('utf-8', errors='ignore'): the code points of the well-formed
\* sequences; a byte that cannot start a sequence is dropped, and so is the
\* well-formed beginning of a sequence that is cut short
SecondOk(b1, b2) ==
    CASE b1 = 224 -> b2 \in 160..191
      [] b1 = 237 -> b2 \in 128..159
      [] b1 = 240 -> b2 \in 144..191
      [] b1 = 244 -> b2 \in 128..143
      [] OTHER    -> b2 \in 128..191

RECURSIVE Utf8Ignore(_)
Utf8Ignore(bs) ==
    IF bs = <<>> THEN <<>>
    ELSE LET b1   == bs[1]
             n    == Len(bs)
             need == IF b1 < 128 THEN 0
                     ELSE IF b1 \in 194..223 THEN 1
                     ELSE IF b1 \in 224..239 THEN 2
                     ELSE IF b1 \in 240..244 THEN 3
                     ELSE -1
             ok(k) == k + 1 <= n /\ (IF k = 1 THEN SecondOk(b1, bs[k + 1])
                                     ELSE bs[k + 1] \in 128..191)
             good == IF need < 1 \/ ~ok(1) THEN 0
                     ELSE IF need < 2 \/ ~ok(2) THEN 1
                     ELSE IF need < 3 \/ ~ok(3) THEN 2
                     ELSE 3
             cp   == CASE need = 1 -> (b1 - 192) * 64 + (bs[2] - 128)
                       [] need = 2 -> (b1 - 224) * 4096 + (bs[2] - 128) * 64 + (bs[3] - 128)
                       [] need = 3 -> (b1 - 240) * 262144 + (bs[2] - 128) * 4096
                                        + (bs[3] - 128) * 64 + (bs[4] - 128)
         IN IF need = 0 THEN <<b1>> \o Utf8Ignore(Tail(bs))
            ELSE IF need = -1 THEN Utf8Ignore(Tail(bs))
            ELSE IF good = need THEN <<cp>> \o Utf8Ignore(SubSeq(bs, need + 2, n))
            ELSE Utf8Ignore(SubSeq(bs, good + 2, n))

\* the code points str.strip() removes
Whitespace ==
    {9, 10, 11, 12, 13, 28, 29, 30, 31, 32, 133, 160, 5760} \cup (8192..8202)
    \cup {8232, 8233, 8239, 8287, 12288}

RECURSIVE LStrip(_)
LStrip(s) == IF s # <<>> /\ Head(s) \in Whitespace THEN LStrip(Tail(s)) ELSE s

RECURSIVE RStrip(_, _)
RStrip(s, chars) ==
    IF s # <<>> /\ s[Len(s)] \in chars THEN RStrip(SubSeq(s, 1, Len(s) - 1), chars) ELSE s

Strip(s) == RStrip(LStrip(s), Whitespace)

\* the lines joined by CR LF
RECURSIVE JoinLines(_)
JoinLines(ls) ==
    IF ls = <<>> THEN <<>>
    ELSE IF Len(ls) = 1 THEN ls[1]
    ELSE ls[1] \o <<CR, LF>> \o JoinLines(Tail(ls))

_decode_char(c) == (IF c >= 42 THEN c - 42 ELSE 256 - (42 - c)) % 256

\* the while loop of decode_yenc over the characters of part['data']
RECURSIVE DecodeChars(_)
DecodeChars(encoded) ==
    IF encoded = <<>> THEN <<>>
    ELSE IF Head(encoded) = ESC
    THEN IF Len(encoded) >= 2
         THEN <<_decode_char(encoded[2])>> \o DecodeChars(SubSeq(encoded, 3, Len(encoded)))
         ELSE <<>>
    ELSE IF Head(encoded) # CR /\ Head(encoded) # LF
    THEN <<_decode_char(Head(encoded))>> \o DecodeChars(Tail(encoded))
    ELSE DecodeChars(Tail(encoded))

\* results of a decoder call
Bytes(bs) == [kind |-> "bytes", bytes |-> bs, info |-> NoError]

None == [kind |-> "None", bytes |-> <<>>, info |-> NoError]

Raised(info) == [kind |-> "raised", bytes |-> <<>>, info |-> info]

\* _find_yenc_parts for data with one "=ybegin " line: part_text starts at
\* the match, and is sliced from header_end, the end of the match counted
\* from the start of content, to the match of "\r\n=yend" counted from the
\* start of part_text (to the end without =yend): as many characters as
\* precede =ybegin are missing at the start of the body
PartData(a) ==
    LET body == Utf8Ignore(IF a.yend THEN JoinLines(a.lines)
                           ELSE JoinLines(a.lines) \o <<CR, LF>>)
    IN Strip(SubSeq(body, Len(Utf8Ignore(preamble)) + 1, Len(body)))

decode_yenc(a) ==
    IF ~a.ybegin THEN None ELSE Bytes(DecodeChars(PartData(a)))

\* the inner for loop of _manual_yenc_decode over one line
RECURSIVE ManualLine(_)
ManualLine(line) ==
    IF line = <<>> THEN <<>>
    ELSE IF Head(line) = ESC THEN ManualLine(Tail(line))
    ELSE <<(Head(line) - 42) % 256>> \o ManualLine(Tail(line))

\* the loop over lines[data_start:data_end]; split('\n') leaves the CR at the
\* end of each line
RECURSIVE ManualLines(_)
ManualLines(ls) ==
    IF ls = <<>> THEN <<>>
    ELSE (IF ls[1] # <<>> /\ ls[1][1] = ESC THEN <<>>
          ELSE ManualLine(RStrip(ls[1] \o <<CR>>, {CR, LF})))
         \o ManualLines(Tail(ls))

\* the ErrorInfo built by the except clause of _manual_yenc_decode
ManualDecodeFailed == ErrorInfo("yenc_decoding", "high", FALSE)

\* result of _manual_yenc_decode and, when it raises, str() of the error
_manual_yenc_decode(a) ==
    IF ~a.ybegin THEN [res |-> Raised(ManualDecodeFailed), msg |-> <<"Manual", "yEnc", "decode", "failed:", "No", "=ybegin", "line", "found">>]
    ELSE IF ~a.yend THEN [res |-> Raised(ManualDecodeFailed), msg |-> <<"Manual", "yEnc", "decode", "failed:", "No", "=yend", "line", "found">>]
    ELSE [res |-> Bytes(ManualLines(a.lines)), msg |-> <<>>]

\* `not data`
IsEmptyData(a) == ~a.ybegin /\ ~a.yend /\ a.lines = <<>>

\* the body of _decode_yenc_data; fast tells what the yenc library does:
\* "absent" (HAS_YENC is False), "fails" (it raises) or "decodes"
DecodeBody(a, fast) ==
    IF IsEmptyData(a)
    THEN [res |-> Raised(ErrorInfo("yenc_decoding", "high", FALSE)), msg |-> <<"Empty", "data", "for", "yEnc", "decoding">>]
    ELSE IF fast = "decodes" THEN [res |-> Bytes(payload), msg |-> <<>>]
    ELSE _manual_yenc_decode(a)

\* the if/elif chain of the wrapper of handle_yenc_errors
yenc_error_key(msg) ==
    LET error_str == LowerMsg(msg) IN
    IF InStr(<<"crc">>, error_str) THEN "yenc_crc"
    ELSE IF InStr(<<"ybegin">>, error_str) \/ InStr(<<"yend">>, error_str) THEN "yenc_headers"
    ELSE IF InStr(<<"incomplete">>, error_str) THEN "yenc_incomplete"
    ELSE "categorize"

YencOut(fn, res) == [fn |-> fn, kind |-> res.kind, bytes |-> res.bytes, info |-> res.info]

CallDecodeYenc ==
    /\ yenc_out.fn = "none"
    /\ yenc_out' = YencOut("decode_yenc", decode_yenc(article))
    /\ UNCHANGED <<payload, article, preamble, classVars, nzbVars, engineVars>>

CallManualDecode ==
    /\ yenc_out.fn = "none"
    /\ yenc_out' = YencOut("_manual_yenc_decode", _manual_yenc_decode(article).res)
    /\ UNCHANGED <<payload, article, preamble, classVars, nzbVars, engineVars>>

\* _decode_yenc_data as decorated by handle_yenc_errors
_decode_yenc_data(fast) ==
    LET body == DecodeBody(article, fast)
        e    == [type |-> "NZBDownloadError", msg |-> body.msg]
    IN
    /\ yenc_out.fn = "none"
    /\ fast = "decodes" => payload # NoPayload
    /\ IF body.res.kind # "raised"
       THEN /\ yenc_out' = YencOut("_decode_yenc_data", body.res)
            /\ UNCHANGED classVars
       ELSE IF yenc_error_key(body.msg) # "categorize"
       THEN /\ yenc_out' = YencOut("_decode_yenc_data",
                                   Raised(ERROR_PATTERNS[yenc_error_key(body.msg)]))
            /\ UNCHANGED classVars
       ELSE /\ yenc_out' = YencOut("_decode_yenc_data", Raised(categorize_error(e)))
            /\ categorize_call(e, {<<"function", "_decode_yenc_data">>})
    /\ UNCHANGED <<payload, article, preamble, nzbVars, engineVars>>

\* payloads: every byte value alone, and sequences over bytes whose encoding
\* is plain, critical, above 127, a complete UTF-8 sequence, or white space
Payloads ==
    UNION {[1..k -> IF k <= 1 THEN 0..255
                    ELSE {0, 19, 65, 86, 127, 153, 214, 224, 227, 246}] : k \in 0..MaxLen}

\* bodies without "=", CR and LF: every such byte alone, the body of
\* test_basic_decoding, and sequences over a sample
RawBodies ==
    {<<c>> : c \in (0..255) \ {CR, LF, ESC}}
    \cup {<<113, 119, 114, 115, 116>>}
    \cup UNION {[1..k -> {32, 42, 113, 128, 169, 195, 255}] : k \in 2..MaxLen}

RawArticles ==
    {[ybegin |-> TRUE, size |-> 12345, lines |-> <<b>>, yend |-> TRUE, crc |-> <<>>] :
        b \in RawBodies}

\* b"" and articles that lack a header or trailer line; the text line is
\* "Just some random data" of test_missing_ybegin, by its first letters
BrokenArticles ==
    {[ybegin |-> FALSE, size |-> 0, lines |-> <<>>, yend |-> FALSE, crc |-> <<>>]}
    \cup {[ybegin |-> b, size |-> 0, lines |-> <<<<74, 117, 115, 116>>>>, yend |-> e, crc |-> <<>>] :
            b \in BOOLEAN, e \in {FALSE}}
    \cup {[ybegin |-> FALSE, size |-> 0, lines |-> <<<<74, 117, 115, 116>>>>, yend |-> TRUE, crc |-> <<>>]}

YencInit ==
    /\ EngineIdle
    /\ NzbIdle
    /\ ClassifyIdle
    /\ yenc_out = NoOutput
    /\ \/ /\ payload \in Payloads
          /\ \E n \in {2, 128}, c \in {"absent", "match", "mismatch"} :
                article = yenc_encode(payload, n,
                             CASE c = "absent"   -> <<>>
                               [] c = "match"    -> _calc_crc32(payload)
                               [] c = "mismatch" ->      \* differs in the lowest bit
                                    <<_calc_crc32(payload)[1],
                                      Xor(_calc_crc32(payload)[2], 1, 16)>>)
       \/ /\ payload = NoPayload
          /\ article \in RawArticles \cup BrokenArticles
    \* nothing, an empty line, or a header line with a byte that is not UTF-8,
    \* before an article that has its =ybegin line
    /\ preamble \in {<<>>, <<CR, LF>>, <<88, 255, CR, LF>>}
    /\ preamble # <<>> => article.ybegin

YencNext ==
    \/ CallDecodeYenc
    \/ CallManualDecode
    \/ \E fast \in {"absent", "fails", "decodes"} : _decode_yenc_data(fast)

YencSpec == YencInit /\ [][YencNext]_vars

(***************************************************************************)
(* NZB manifests (error_handling.py validate_nzb_content,                  *)
(* nzb_service_enhanced.py parse_nzb_with_validation, _parse_with_etree,   *)
(* download_nzb).  A document is                                           *)
(*   [xml, root, namespaced, files]                                        *)
(* xml says whether the text is well-formed, root is the local name of the *)
(* root element, namespaced whether the root carries a default xmlns, and  *)
(* files the file elements in document order, each the sequence of its     *)
(* segment elements.  A segment element is "good" (number, bytes and a     *)
(* message id), "no_number" (number attribute absent), "bad_number"        *)
(* (number is not an integer) or "no_text" (empty element).  Documents     *)
(* that are malformed or have another root are taken without children.     *)
(* NzbSpec: one document is parsed by _parse_with_etree or downloaded by   *)
(* download_nzb; HAS_PYNZB is False.                                       *)
(***************************************************************************)
MaxFiles == 2                 \* file elements in a document
MaxFileSegs == 2              \* segment elements in a file element

Documents ==
    {d \in [xml : {"ok", "malformed"}, root : {"nzb", "other"}, namespaced : BOOLEAN,
            files : UNION {[1..k -> UNION {[1..j -> {"good", "no_number", "bad_number", "no_text"}] : j \in 0..MaxFileSegs}] :
                           k \in 0..MaxFiles}] :
        /\ d.xml = "malformed" => (d.root = "nzb" /\ ~d.namespaced /\ d.files = <<>>)
        /\ d.root = "other" => d.files = <<>>}

RECURSIVE TotalSegments(_)
TotalSegments(files) ==
    IF files = <<>> THEN 0 ELSE Len(Head(files)) + TotalSegments(Tail(files))

EmptyFiles(files) == {i \in 1..Len(files) : files[i] = <<>>}

Diagnostics(valid, errors, warnings, file_count, segment_count) ==
    [valid |-> valid, errors |-> errors, warnings |-> warnings,
     file_count |-> file_count, segment_count |-> segment_count]

\* a variant without the final `if total_segments == 0`
validate_nzb_content_no_segment_check(d) ==
    IF d.xml = "malformed" THEN Diagnostics(FALSE, <<"XML parsing error">>, 0, 0, 0)
    ELSE IF d.root # "nzb" THEN Diagnostics(FALSE, <<"Root element is not 'nzb'">>, 0, 0, 0)
    ELSE IF Len(d.files) = 0 THEN Diagnostics(FALSE, <<"No files found in NZB">>, 0, 0, 0)
    ELSE Diagnostics(TRUE, <<>>, Cardinality(EmptyFiles(d.files)),
                     Len(d.files), TotalSegments(d.files))

\* validate_nzb_content: file and segment elements are looked up with the
\* namespace of the root, so both kinds of document are counted
validate_nzb_content(d) ==
    IF d.xml = "malformed" THEN Diagnostics(FALSE, <<"XML parsing error">>, 0, 0, 0)
    ELSE IF d.root # "nzb" THEN Diagnostics(FALSE, <<"Root element is not 'nzb'">>, 0, 0, 0)
    ELSE IF Len(d.files) = 0 THEN Diagnostics(FALSE, <<"No files found in NZB">>, 0, 0, 0)
    ELSE IF TotalSegments(d.files) = 0
    THEN Diagnostics(FALSE, <<"No segments found in any files">>,
                     Cardinality(EmptyFiles(d.files)), Len(d.files), 0)
    ELSE Diagnostics(TRUE, <<>>, Cardinality(EmptyFiles(d.files)),
                     Len(d.files), TotalSegments(d.files))

\* the try block of the segment loop: int() of a non-integer raises
\* ValueError, .strip() of a missing text raises AttributeError, and the
\* segment is skipped; a missing number attribute is read as 0
RECURSIVE ParseSegments(_, _)
ParseSegments(elems, i) ==
    IF i > Len(elems) THEN <<>>
    ELSE (CASE elems[i] = "good"      -> <<[number |-> i]>>
            [] elems[i] = "no_number" -> <<[number |-> 0]>>
            [] OTHER                  -> <<>>)
         \o ParseSegments(elems, i + 1)

\* the loop over root.findall('.//file'): `if segments: files.append(...)`
RECURSIVE ParseFiles(_)
ParseFiles(files) ==
    IF files = <<>> THEN <<>>
    ELSE (IF ParseSegments(Head(files), 1) # <<>>
          THEN <<ParseSegments(Head(files), 1)>> ELSE <<>>)
         \o ParseFiles(Tail(files))

\* _parse_with_etree of a well-formed document: 'file' without a namespace
\* matches no element of a document whose root declares a default xmlns
_parse_with_etree(d) == IF d.namespaced THEN <<>> ELSE ParseFiles(d.files)

\* the ErrorInfo parse_nzb_with_validation builds for an invalid document
InvalidNzb == ErrorInfo("nzb_format", "critical", FALSE)

\* a direct call of _parse_with_etree; e is the ParseError of ET.fromstring
CallParseWithEtree ==
    LET e == [type |-> "ParseError",
              msg |-> <<"syntax", "error:", "line", "1,", "column", "0">>]
    IN
    /\ npc = "start"
    /\ npc' = "parsed"
    /\ IF doc.xml = "malformed"
       THEN /\ categorize_call(e, {<<"parser", "etree">>})
            /\ nzb_result' = [success |-> FALSE, error |-> categorize_error(e)]
            /\ UNCHANGED parsed
       ELSE /\ parsed' = _parse_with_etree(doc)
            /\ UNCHANGED <<nzb_result, classVars>>
    /\ UNCHANGED <<doc, validation, file_idx, downloaded, nzb_fetches, results, yencVars,
                   engineVars>>

\* download_nzb up to the file loop: parse_nzb_with_validation; the
\* NZBDownloadError of an invalid document is caught by download_nzb's
\* `except Exception`, which returns success False
parse_nzb_with_validation ==
    /\ npc = "start"
    /\ validation' = validate_nzb_content(doc)
    /\ IF ~validate_nzb_content(doc).valid
       THEN /\ nzb_result' = [success |-> FALSE, error |-> InvalidNzb]
            /\ npc' = "done"
            /\ UNCHANGED parsed
       ELSE /\ parsed' = _parse_with_etree(doc)
            /\ npc' = "files"
            /\ UNCHANGED nzb_result
    /\ UNCHANGED <<doc, file_idx, downloaded, nzb_fetches, results, classVars, yencVars,
                   engineVars>>

\* one iteration of `for i, file_info in enumerate(files)`: download_file
\* fetches the file's segments and returns, raises its NZBDownloadError of
\* severity high, or raises another exception; the last two skip the file
DownloadFile(outcome) ==
    /\ npc = "files"
    /\ file_idx < Len(parsed)
    /\ file_idx' = file_idx + 1
    /\ nzb_fetches' = nzb_fetches + Len(parsed[file_idx + 1])
    /\ downloaded' = IF outcome = "ok" THEN downloaded + 1 ELSE downloaded
    /\ UNCHANGED <<doc, npc, validation, parsed, results, nzb_result, classVars, yencVars,
                   engineVars>>

\* the summary: success = success_rate > 0.5, and 0 for an empty file list
Summary ==
    /\ npc = "files"
    /\ file_idx = Len(parsed)
    /\ npc' = "done"
    /\ nzb_result' = [success |-> 2 * downloaded > Len(parsed), error |-> NoError]
    /\ UNCHANGED <<doc, validation, parsed, file_idx, downloaded, nzb_fetches, results,
                   classVars, yencVars, engineVars>>

NzbInit ==
    /\ EngineIdle
    /\ ClassifyIdle
    /\ YencIdle
    /\ doc \in Documents
    /\ npc = "start"
    /\ validation = Diagnostics(FALSE, <<>>, 0, 0, 0)
    /\ parsed = <<>>
    /\ file_idx = 0
    /\ downloaded = 0
    /\ nzb_fetches = 0
    /\ results = <<>>
    /\ nzb_result = [success |-> FALSE, error |-> NoError]

NzbNext ==
    \/ CallParseWithEtree
    \/ parse_nzb_with_validation
    \/ \E o \in {"ok", "nzb_error_high", "exception"} : DownloadFile(o)
    \/ Summary

NzbSpec == NzbInit /\ [][NzbNext]_vars

(***************************************************************************)
(* NZBService.add_nzb_download (services/nzb_service.py)                   *)
(***************************************************************************)
\* the list `segments` after the two findall loops, as a set: the segment
\* elements of every file element, each with the file element it belongs
\* to, its place in it and int(seg.get('number', 1))
CollectedSegments(d) ==
    UNION {{[file |-> f, pos |-> i,
             number |-> IF d.files[f][i] = "good" THEN i ELSE 1] :
               i \in 1..Len(d.files[f])} : f \in 1..Len(d.files)}

\* segments.sort(key=lambda x: x['number']): a stable sort, so segments of
\* equal number stay in document order
RECURSIVE SortByNumber(_)
SortByNumber(S) ==
    IF S = {} THEN <<>>
    ELSE LET first == CHOOSE x \in S : \A y \in S :
                          \/ x.number < y.number
                          \/ /\ x.number = y.number
                             /\ \/ x.file < y.file
                                \/ x.file = y.file /\ x.pos <= y.pos
         IN <<first>> \o SortByNumber(S \ {first})

\* one call of add_nzb_download; lost are the places in the sorted list of
\* the segments for which download_segment returns None.  The tags looked
\* up carry the newzbin namespace, so a document without it has no
\* segments; int() of a bad number and .strip() of a missing text raise out
\* of the function, as does ET.parse of a malformed document
add_nzb_download(lost) ==
    LET segments_ == IF doc.namespaced THEN SortByNumber(CollectedSegments(doc)) ELSE <<>>
        fetched == SelectSeq([k \in 1..Len(segments_) |->
                                 [seg |-> segments_[k], ok |-> k \notin lost]],
                             LAMBDA r : r.ok)
    IN
    /\ npc = "start"
    /\ lost \subseteq 1..Len(segments_)
    /\ IF \/ doc.xml = "malformed"
          \/ /\ doc.namespaced
             /\ \E f \in 1..Len(doc.files) : \E i \in 1..Len(doc.files[f]) :
                   doc.files[f][i] \in {"bad_number", "no_text"}
       THEN /\ lost = {}
            /\ npc' = "raised"
            /\ UNCHANGED results
       ELSE /\ npc' = "done"
            /\ results' = [k \in 1..Len(fetched) |-> fetched[k].seg]
    /\ UNCHANGED <<doc, validation, parsed, file_idx, downloaded, nzb_fetches, nzb_result,
                   classVars, yencVars, engineVars>>

AddNzbSpec ==
    /\ NzbInit
    /\ [][\E lost \in SUBSET (1..(MaxFiles * MaxFileSegs)) : add_nzb_download(lost)]_vars

(***************************************************************************)
(* Properties of EnhancedNZBService.download_file (checked under Spec)     *)
(***************************************************************************)
\* the segment (position in the file) a byte of the output comes from
PosOf(b) == (b + 1) \div 2

OkTasks == {t \in 1..Len(tasks) : tasks[t].st = "ok"}

FailedTasks == {t \in 1..Len(tasks) : tasks[t].st = "failed"}

NumberedFromOne == \A i \in 1..Len(segments) : \E t \in 1..Len(segments) : segments[t] = i

\* C1: the bytes of the assembled output are in strictly ascending order of
\* the number of the segment they come from (inside one segment, in the
\* segment's own order) and come from successfully fetched segments only,
\* whatever the order in which the fetches completed; when the segments are
\* numbered 1..n the bytes of every successful segment are in the output, so
\* for segments 1 and 2 both fetched the output is segment 1 then segment 2.
C1_AscendingReassembly ==
    opc = "done" =>
        /\ \A i, j \in 1..Len(combined_data) :
              i < j =>
                 LET p == PosOf(combined_data[i])
                     q == PosOf(combined_data[j])
                 IN \/ segments[p] < segments[q]
                    \/ p = q /\ combined_data[i] < combined_data[j]
        /\ \A i \in 1..Len(combined_data) : PosOf(combined_data[i]) \in OkTasks
        /\ NumberedFromOne =>
              \A t \in OkTasks : \E i \in 1..(Len(combined_data) - 1) :
                  <<combined_data[i], combined_data[i + 1]>> = Payload(t)
        /\ (segments = <<1, 2>> /\ OkTasks = {1, 2}) =>
              combined_data = Payload(1) \o Payload(2)

C1_Witness ==
    /\ opc = "done"
    /\ early
    /\ segments = <<1, 2>>
    /\ combined_data = Payload(1) \o Payload(2)

\* C2 as stated: download_file fails the file (NntpServer/High, not
\* retriable, nothing assembled or written) exactly when fewer than 80% of
\* the file's segments were fetched successfully, 5 * successful < 4 * total,
\* and otherwise assembles and writes it.
C2_FailsExactlyBelow80Percent ==
    opc \in {"failed", "done"} =>
        /\ opc = "failed" <=> 5 * Cardinality(OkTasks) < 4 * Len(segments)
        /\ opc = "failed" =>
              /\ raised = ErrorInfo("nntp_server", "high", FALSE)
              /\ combined_data = <<>>
              /\ written = <<>>

\* C3: download_file decides the file's outcome only after every segment of
\* the file was attempted and reached its own result, success or failure:
\* a failed segment neither stops the wait for its siblings nor their
\* fetches, and each result is recorded once, as data or as a failed number.
C3_SegmentFailuresContained ==
    /\ opc # "start" => Len(tasks) = Len(segments)
    /\ opc \in {"check", "failed", "done"} =>
          /\ \A t \in 1..Len(segments) : TaskDone(t)
          /\ await_idx = Len(segments)
          /\ Len(failed_segments) = Cardinality(FailedTasks)
          /\ \A t \in OkTasks : DictHas(segment_data, segments[t])
          /\ \A t \in FailedTasks : \E i \in 1..Len(failed_segments) :
                failed_segments[i] = segments[t]

C3_Witness ==
    /\ opc = "done"
    /\ \E t, u \in 1..Len(tasks) : t < u /\ tasks[t].st = "failed" /\ tasks[u].st = "ok"

(***************************************************************************)
(* Properties of the connection handling of EnhancedNZBService (FetchSpec) *)
(***************************************************************************)
InAttempt(w) == fpc[w] # "idle"

HeldBy(c) == {w \in Fetchers : fconn[w] = c}

\* C9: a fetcher holds a connection only inside a fetch attempt, and when
\* the attempt has ended, by whatever path, its connection is back in the
\* idle pool or closed and its permit is free: every open connection is idle
\* in the pool or held by a running attempt, the free permits are those not
\* taken by running attempts, and once no attempt runs no connection is
\* checked out and all permits are free.
C9_ConnectionAlwaysReleased ==
    /\ \A w \in Fetchers : ~InAttempt(w) => fconn[w] = 0
    /\ \A w \in Fetchers : fpc[w] = "release" => fconn[w] = 0
    /\ \A c \in Created : nntp[c] = "open" => (InPool(c) \/ HeldBy(c) # {})
    /\ connection_semaphore = Connections - Cardinality({w \in Fetchers : InAttempt(w)})
    /\ (\A w \in Fetchers : ~InAttempt(w)) =>
          /\ connection_semaphore = Connections
          /\ \A c \in Created : nntp[c] = "open" => InPool(c)

C9_Witness ==
    /\ \A w \in Fetchers : ~InAttempt(w)
    /\ fetches = MaxFetches
    /\ op_failed # {}
    /\ \E w \in Fetchers : fexc[w] = FALSE
    /\ Len(connection_pool) = Connections

\* C10 as stated: a connection on which an operation failed is never in
\* connection_pool and is never held by a later fetch attempt.
C10_FailedConnectionNeverPooled ==
    /\ \A c \in op_failed : ~InPool(c)
    /\ \A w \in Fetchers : (fconn[w] \in op_failed) => fexc[w]

(***************************************************************************)
(* Properties of SSLConnectionManager (checked under PoolSpec)             *)
(***************************************************************************)
\* C8 as stated: the number of open connections, idle in the queue plus
\* checked out, never exceeds max_connections.
C8_OpenConnectionsBounded == Cardinality(OpenConns) <= max_connections

(***************************************************************************)
(* Properties of EnhancedRetryHandler (checked under RetrySpec)            *)
(***************************************************************************)
RetryFinished == rpc \in {"returned", "raised"}

\* C4 as stated: the wrapped operation is invoked at most max_retries times.
C4_AtMostMaxRetriesCalls == calls <= handler.max_retries

\* C4 amended: retry and retry_async invoke the wrapped operation at most
\* max_retries + 1 times (one first attempt and max_retries retries), have
\* finished (returned or raised) once that many invocations were made, and
\* return at the first successful invocation without invoking it again.
C4_RetryBound ==
    /\ calls <= handler.max_retries + 1
    /\ attempt <= handler.max_retries
    /\ calls = handler.max_retries + 1 => RetryFinished
    /\ success_at # 0 <=> rpc = "returned"
    /\ success_at # 0 => calls = success_at

C4_Witness ==
    /\ handler.max_retries >= 2
    /\ rpc = "returned"
    /\ calls = handler.max_retries + 1

\* C5: a failure whose ErrorInfo is not retriable and not in the TLS category
\* is propagated at once: the handler has raised that very ErrorInfo and slept
\* no delay after that failure, so a first such failure means exactly one
\* invocation and no sleep; "480 authentication required" is such a failure.
C5_NonRetriableNotRetried ==
    /\ categorize_error(AuthRequiredError) = ErrorInfo("authentication", "critical", FALSE)
    /\ (/\ last_error # NoError
        /\ ~last_error.retriable
        /\ last_error.category # "ssl_connection")
       => /\ rpc = "raised"
          /\ raised = last_error
          /\ Len(delays) = calls - 1
          /\ (calls = 1 => delays = <<>>)

C5_Witness ==
    /\ handler.max_retries >= 1
    /\ calls = 1
    /\ rpc = "raised"
    /\ raised = ErrorInfo("authentication", "critical", FALSE)
    /\ delays = <<>>

\* C6: a TLS-category failure is propagated only when the attempt limit is
\* reached, whatever its retriable flag: before that the handler sleeps and
\* invokes the operation again; "_ssl.c:1000: EOF occurred" is classified in
\* the TLS category, retriable.
C6_TlsAlwaysRetried ==
    /\ categorize_error(SslEofError).category = "ssl_connection"
    /\ categorize_error(SslEofError).retriable
    /\ (last_error.category = "ssl_connection" /\ rpc = "raised")
       => /\ calls = handler.max_retries + 1
          /\ Len(delays) = handler.max_retries

C6_Witness ==
    /\ handler.max_retries >= 2
    /\ rpc = "raised"
    /\ raised.category = "ssl_connection"
    /\ ~raised.retriable
    /\ calls = handler.max_retries + 1

\* C7: the n-th delay slept (after failed attempt n-1) is
\* min(base_delay * 2^(n-1), max_delay); a delay follows every failed attempt
\* that is retried and nothing else: none after the last attempt, none after
\* a success.
C7_BackoffDelays ==
    /\ \A n \in 1..Len(delays) :
          /\ delays[n] = Min(handler.base_delay * Pow2(n - 1), handler.max_delay)
          /\ delays[n] <= handler.max_delay
    /\ Len(delays) <= handler.max_retries
    /\ RetryFinished => Len(delays) = calls - 1
    /\ rpc = "sleep" => Len(delays) = calls
    /\ rpc = "call" => Len(delays) = calls

C7_Witness ==
    /\ Len(delays) = 3
    /\ delays[1] = handler.base_delay
    /\ delays[2] > delays[1]
    /\ delays[3] = handler.max_delay
    /\ delays[3] < handler.base_delay * 4

(***************************************************************************)
(* categorize_error: properties                                            *)
(***************************************************************************)
\* the spec's rules 1 to 9 on a lower-cased message s; conn adds the pair
\* "ssl"+"connection" to rule 1, typed adds the error's type name to rule 5
SpecRules(s, conn, typed) ==
    LET has(k) == InStr(<<k>>, s) IN
    IF \/ has("ssl") /\ (has("eof") \/ has("closed") \/ (conn /\ has("connection")))
       \/ has("tls") /\ (has("eof") \/ has("closed"))
       \/ has("_ssl.c")
       THEN ErrorInfo("ssl_connection", "medium", TRUE)
    ELSE IF has("ssl") /\ has("protocol") THEN ErrorInfo("ssl_connection", "high", TRUE)
    ELSE IF has("ssl") \/ has("certificate") THEN ErrorInfo("ssl_connection", "high", TRUE)
    ELSE IF has("430") \/ InStr(<<"no", "such", "article">>, s)
       THEN ErrorInfo("nntp_server", "high", FALSE)
    ELSE IF has("480") \/ has("authentication") THEN ErrorInfo("authentication", "critical", FALSE)
    ELSE IF has("502") \/ InStr(<<"permission", "denied">>, s)
       THEN ErrorInfo("authentication", "critical", FALSE)
    ELSE IF has("timeout") \/ typed THEN ErrorInfo("network", "medium", TRUE)
    ELSE IF has("dns") \/ InStr(<<"name", "resolution">>, s) THEN ErrorInfo("network", "high", TRUE)
    ELSE IF has("crc") THEN ErrorInfo("yenc_decoding", "high", FALSE)
    ELSE IF has("ybegin") \/ has("yend") THEN ErrorInfo("yenc_decoding", "high", FALSE)
    ELSE IF has("incomplete") \/ has("truncated") THEN ErrorInfo("yenc_decoding", "medium", TRUE)
    ELSE IF InStr(<<"no", "space">>, s) \/ InStr(<<"disk", "full">>, s)
       THEN ErrorInfo("file_system", "critical", FALSE)
    ELSE IF has("permission") /\ has("denied") THEN ErrorInfo("file_system", "high", FALSE)
    ELSE IF has("xml") /\ has("invalid") THEN ErrorInfo("nzb_format", "critical", FALSE)
    ELSE IF InStr(<<"no", "files">>, s) \/ has("empty") THEN ErrorInfo("nzb_format", "critical", FALSE)
    ELSE ErrorInfo("unknown", "medium", TRUE)

Classified == cinfo # NoError

\* C15 (as stated): categorize_error returns the triple of the first of the
\* spec's rules 1 to 9 whose substrings the lower-cased message contains, and
\* Unknown/Medium/retriable when none matches.
C15_FirstMatchingSpecRule ==
    Classified => cinfo = SpecRules(LowerMsg(cerror.msg), FALSE, FALSE)

\* C15 (amended): the same, with "ssl"+"connection" among the pairs of rule 1
\* and with rule 5 also matching an error whose type is named "timeout".
C15_FirstMatchingRule ==
    Classified => cinfo = SpecRules(LowerMsg(cerror.msg), TRUE, cerror.type = "timeout")

\* an "SSL connection" message has been classified by rule 1
C15_Witness ==
    /\ cerror.msg = <<"SSL", "connection">>
    /\ cinfo = ErrorInfo("ssl_connection", "medium", TRUE)

\* C16: every message that contains "ssl" or "certificate" is classified in
\* the category ssl_connection with retriable = true, whatever keywords of
\* later rules it also contains.
C16_TlsKeywordsWin ==
    (Classified /\ (InStr(<<"ssl">>, LowerMsg(cerror.msg))
                      \/ InStr(<<"certificate">>, LowerMsg(cerror.msg))))
        => (cinfo.category = "ssl_connection" /\ cinfo.retriable)

\* an SSL error that mentions "timeout" has been classified as a TLS error
C16_Witness ==
    /\ cerror.msg = <<"SSL", "timeout">>
    /\ cinfo.category = "ssl_connection"

\* the context of the ErrorInfo object returned by call i, as it reads now
ContextOf(i) ==
    IF infos[i].key = "unknown" THEN infos[i].own ELSE pattern_context[infos[i].key]

\* C17: the ErrorInfo a call returned carries the context passed to that call
\* and nothing else, also after later calls.
C17_ClassificationIsPure ==
    \A i \in 1..Len(infos) : ContextOf(i) = infos[i].context

\* C18: the socket timeout error, whose message is "timed out", is classified
\* as network / medium / retriable.
C18_SocketTimeoutIsNetwork ==
    (Classified /\ cerror.msg = <<"timed", "out">> /\ cerror.type \in SocketTimeoutNames)
        => cinfo = ErrorInfo("network", "medium", TRUE)

(***************************************************************************)
(* yEnc decoders: properties                                               *)
(***************************************************************************)
DecodedBy(fn) == yenc_out.fn = fn

RECURSIVE Flatten(_)
Flatten(ls) == IF ls = <<>> THEN <<>> ELSE Head(ls) \o Flatten(Tail(ls))

HasEscape(a) == \E i \in 1..Len(a.lines) : \E j \in 1..Len(a.lines[i]) : a.lines[i][j] = ESC

Undecodable(a) == IsEmptyData(a) \/ ~a.ybegin

\* C11: decoding the yEnc encoding of a payload B, with decode_yenc or with
\* _manual_yenc_decode, yields exactly B.
C11_RoundTrip ==
    (payload # NoPayload /\ (DecodedBy("decode_yenc") \/ DecodedBy("_manual_yenc_decode")))
        => (yenc_out.kind = "bytes" /\ yenc_out.bytes = payload)

\* C12: for an article with =ybegin, =yend and body lines without "=",
\* decode_yenc returns one byte (c - 42) mod 256 per body byte c, in body
\* order, whatever the size= field says.
C12_PlainBodyBytes ==
    (DecodedBy("decode_yenc") /\ article.ybegin /\ article.yend /\ ~HasEscape(article))
        => /\ yenc_out.kind = "bytes"
           /\ yenc_out.bytes = [i \in 1..Len(Flatten(article.lines)) |->
                                   (Flatten(article.lines)[i] + 214) % 256]

\* C13: bytes are never returned by decode_yenc or _manual_yenc_decode for an
\* article whose =yend line carries a CRC value that differs from the CRC32
\* of the decoded bytes (checked where the decoder decoded the payload
\* exactly).
C13_CrcMismatchRejected ==
    (/\ DecodedBy("decode_yenc") \/ DecodedBy("_manual_yenc_decode")
     /\ yenc_out.kind = "bytes"
     /\ yenc_out.bytes = payload
     /\ article.crc # <<>>)
        => article.crc = _calc_crc32(yenc_out.bytes)

\* C14: for input that is empty or has no =ybegin line, decode_yenc returns
\* None and _decode_yenc_data raises an NZBDownloadError whose ErrorInfo is
\* yenc_decoding and not retriable.
C14_UndecodableInputRejected ==
    Undecodable(article)
        => /\ DecodedBy("decode_yenc") => yenc_out.kind = "None"
           /\ DecodedBy("_decode_yenc_data")
                => /\ yenc_out.kind = "raised"
                   /\ yenc_out.info.category = "yenc_decoding"
                   /\ ~yenc_out.info.retriable

(***************************************************************************)
(* NZB manifests: properties                                               *)
(***************************************************************************)
NzbRooted == doc.xml = "ok" /\ doc.root = "nzb"

\* C19: for a document whose root is nzb, namespaced or not, _parse_with_etree
\* returns one entry per file element that has segments and as many segment
\* entries as validate_nzb_content counts, and a document accepted by
\* validation never parses to an empty list.
C19_ParserAgreesWithValidation ==
    (npc = "parsed" /\ NzbRooted)
        => /\ Len(parsed) = Len(doc.files) - Cardinality(EmptyFiles(doc.files))
           /\ TotalSegments(parsed) = validate_nzb_content(doc).segment_count
           /\ validate_nzb_content(doc).valid => parsed # <<>>

\* C20: download_nzb fetches segments only for a manifest with at least one
\* file element and one segment; for a manifest with no file element or no
\* segment at all it ends with the nzb_format / critical / non-retriable
\* error, success False and no fetch; a file without segments next to a file
\* with segments leaves the manifest valid.
C20_FetchOnlyForUsableManifest ==
    /\ nzb_fetches > 0 => (Len(doc.files) >= 1 /\ TotalSegments(doc.files) >= 1)
    /\ (npc = "done" /\ NzbRooted /\ TotalSegments(doc.files) = 0)
          => /\ nzb_result = [success |-> FALSE, error |-> InvalidNzb]
             /\ nzb_fetches = 0
    /\ (npc \in {"files", "done"} /\ NzbRooted /\ EmptyFiles(doc.files) # {}
          /\ TotalSegments(doc.files) > 0)
          => /\ validation.valid
             /\ validation.warnings > 0
             /\ nzb_result.error = NoError

\* download_nzb has ended on a manifest whose only file element has no
\* segment
C20_Witness ==
    /\ npc = "done"
    /\ NzbRooted
    /\ doc.files = <<<<>>>>
    /\ nzb_result.error = InvalidNzb

(***************************************************************************)
(* download_file and segment numbers (checked under Spec)                  *)
(***************************************************************************)
\* C21: a file whose segment list holds the same number twice is rejected
\* as a manifest-format error and no segment fetch is launched for it:
\* download_file creates no task for such a file.
C21_DuplicateNumbersRejected ==
    (\E i, j \in 1..Len(segments) : i # j /\ segments[i] = segments[j])
        => (tasks = <<>> /\ opc \in {"start", "failed"})

\* C26: when download_file has written the file, the bytes of every segment
\* whose fetch succeeded appear exactly once in it, whatever the (distinct)
\* numbers of the segments are.
C26_FetchedSegmentsAssembled ==
    (/\ opc = "done"
     /\ \A i, j \in 1..Len(segments) : i # j => segments[i] # segments[j])
        => \A t \in OkTasks :
              Cardinality({k \in 1..Len(written) : written[k] = 2 * t - 1}) = 1

(***************************************************************************)
(* Message ids (checked under FetchSpec)                                   *)
(***************************************************************************)
\* C22: a segment whose message-id is empty is failed at once, locally: the
\* fetch takes no permit, acquires no connection and sends no ARTICLE
\* command.
C22_EmptyMessageIdFailsLocally ==
    \A w \in Fetchers : fmsg[w] = "" => (fpc[w] = "idle" /\ fconn[w] = 0)

(***************************************************************************)
(* SSLConnectionManager: TLS context and counters (checked under PoolSpec) *)
(***************************************************************************)
\* C23 as stated: a connection creation that finds more than 5 counted TLS
\* failures builds a new TLS context.
C23_RebuildAboveFiveFailures ==
    [][\A t \in Threads :
          (tpc[t] = "create" /\ tpc'[t] # "create" /\ ssl_errors > 5)
              => ssl_context' = ssl_context + 1]_vars

\* C23 amended: a connection creation builds a new TLS context exactly when
\* more than 5 TLS failures are counted and more than 60 seconds have passed
\* since the context was last built; it then counts from zero again (the
\* failure of this very creation is counted twice) and the 60 seconds start
\* anew; otherwise the context is kept, and nothing else replaces it.
C23_RebuildWhenDue ==
    [][/\ \A t \in Threads :
             (tpc[t] = "create" /\ tpc'[t] # "create")
                 => IF ssl_errors > 5 /\ refresh_due
                    THEN /\ ssl_context' = ssl_context + 1
                         /\ ssl_errors' \in {0, 2}
                         /\ ~refresh_due'
                    ELSE ssl_context' = ssl_context
       /\ ssl_context' # ssl_context
             => \E t \in Threads : tpc[t] = "create" /\ tpc'[t] # "create"]_vars

\* the context was rebuilt and a connection was created with the new one
C23_Witness == ssl_context = 1 /\ ssl_errors = 0 /\ total_created > 0

\* C28: the counter active_connections equals the number of open
\* connections, idle in the queue or checked out; it is never negative and
\* never above that number.
C28_ActiveCountsOpenConnections == active_connections = Cardinality(OpenConns)

(***************************************************************************)
(* Cancellation of download_file (checked under Spec)                      *)
(***************************************************************************)
\* C24: once download_file has been signalled to stop, no further segment
\* fetch is launched: no segment task makes another fetch attempt.
C24_NoFetchAfterCancel == [][opc = "cancelled" => tasks' = tasks]_vars

(***************************************************************************)
(* RetryHandler of nzb_service.py (checked under SegmentRetrySpec)         *)
(***************************************************************************)
\* C25: an attempt that fails with a non-retriable cause (430 no such
\* article, 480 authentication required) is not followed by a sleep or by
\* another attempt: the failure is raised at once.
C25_NonRetriableNotRepeated ==
    [][(rpc = "call" /\ rpc' \in {"sleep", "raised"} /\ ~last_error'.retriable)
          => (rpc' = "raised" /\ delays' = delays)]_vars

(***************************************************************************)
(* decode_yenc and the text before =ybegin (checked under YencSpec)        *)
(***************************************************************************)
\* C27: whatever precedes the =ybegin line, decode_yenc returns the
\* decoding of exactly the body between the header line and the =yend line.
C27_PreambleIgnored ==
    (DecodedBy("decode_yenc") /\ article.ybegin /\ article.yend)
        => /\ yenc_out.kind = "bytes"
           /\ yenc_out.bytes = DecodeChars(Strip(Utf8Ignore(JoinLines(article.lines))))


(***************************************************************************)
(* Properties of both connection pools (checked under PoolsSpec)           *)
(***************************************************************************)
\* C29: in both pools, under every interleaving of their concurrent users,
\* no connection is checked out by two users at the same time, no connection
\* is at once idle in the pool and checked out, the idle pool never holds
\* more connections than the configured maximum (server_config.connections,
\* max_connections), and it never holds the same connection twice.
C29_PoolsExclusive ==
    /\ \A w, x \in DOMAIN fconn : (w # x /\ fconn[w] # 0) => fconn[w] # fconn[x]
    /\ \A w \in DOMAIN fconn : ~InPool(fconn[w])
    /\ Len(connection_pool) <= Connections
    /\ \A i, j \in 1..Len(connection_pool) :
          i # j => connection_pool[i] # connection_pool[j]
    /\ \A t, u \in DOMAIN tconn : (t # u /\ tconn[t] # 0) => tconn[t] # tconn[u]
    /\ \A t \in DOMAIN tconn : ~Queued(tconn[t])
    /\ Len(connections) <= PoolMaxConnections
    /\ \A i, j \in 1..Len(connections) : i # j => connections[i] # connections[j]

\* two fetchers are inside an attempt at the same time, one holds a
\* connection that was idle in the pool before, the other is about to check
\* one out of the non-empty pool
C29_Witness ==
    \E w, x \in DOMAIN fconn :
        /\ w # x
        /\ fconn[w] # 0
        /\ fpc[w] = "article"
        /\ fpc[x] = "get"
        /\ connection_pool # <<>>
        /\ fetches > 2

(***************************************************************************)
(* Properties of NZBService.add_nzb_download (checked under AddNzbSpec)    *)
(***************************************************************************)
\* C30 as stated: what add_nzb_download assembles never mixes the segments
\* of different file elements: the segments of one file are contiguous, no
\* segment of another file lies between two of them, and they are in
\* ascending order of their segment numbers.
C30_FilesNotMixed ==
    npc = "done" =>
        /\ \A i, j, k \in 1..Len(results) :
              (i < j /\ j < k /\ results[i].file = results[k].file)
                  => results[j].file = results[i].file
        /\ \A i, j \in 1..Len(results) :
              (i < j /\ results[i].file = results[j].file)
                  => results[i].number <= results[j].number
====
